---- MODULE Spec2Model ----
(***************************************************************************)
(* Guardrail of the Arcas platform: detection of sensitive substrings,     *)
(* placeholder allocation, redaction, mapping construction and restore.    *)
(* Strings are sequences of one-character strings; offsets are 0-based as  *)
(* in the source, so the character at offset p of s is s[p + 1].           *)
(***************************************************************************)
EXTENDS Integers, Sequences, FiniteSets, TLC

(***************************************************************************)
(* Character classes of the regular expressions                            *)
(***************************************************************************)
Digit == {"0", "1", "2", "3", "4", "5", "6", "7", "8", "9"}

LowerSeq == <<"a", "b", "c", "d", "e", "f", "g", "h", "i", "j", "k", "l", "m",
              "n", "o", "p", "q", "r", "s", "t", "u", "v", "w", "x", "y", "z">>

UpperSeq == <<"A", "B", "C", "D", "E", "F", "G", "H", "I", "J", "K", "L", "M",
              "N", "O", "P", "Q", "R", "S", "T", "U", "V", "W", "X", "Y", "Z">>

Lower == {LowerSeq[i] : i \in DOMAIN LowerSeq}

Upper == {UpperSeq[i] : i \in DOMAIN UpperSeq}

Alpha == Lower \cup Upper

AlNum == Alpha \cup Digit

\* \w
WordCh == AlNum \cup {"_"}

\* \s (the white space of the modelled texts)
Space == {" ", "\t", "\n", "\r"}

\* [äöüßÄÖÜ]
Umlaut == {"ä", "ö", "ü", "ß", "Ä", "Ö", "Ü"}

\* String.prototype.toLowerCase on one ASCII character
LowerCh(c) ==
  IF c \in Upper
    THEN LowerSeq[CHOOSE i \in DOMAIN UpperSeq : UpperSeq[i] = c]
    ELSE c

\* String.prototype.toUpperCase on one ASCII character
UpperCh(c) ==
  IF c \in Lower
    THEN UpperSeq[CHOOSE i \in DOMAIN LowerSeq : LowerSeq[i] = c]
    ELSE c

toLowerCase(s) == [i \in DOMAIN s |-> LowerCh(s[i])]

\* the characters an ignore-case pattern accepts where it names the set S
IgnoreCase(S) == S \cup {LowerCh(c) : c \in S} \cup {UpperCh(c) : c \in S}

(***************************************************************************)
(* Regular expressions as trees.  Every node has the same fields:          *)
(*   k  kind; s  character set; ns  sub-expressions; lo, hi  repetition.   *)
(***************************************************************************)
Node(k, s, ns, lo, hi) == [k |-> k, s |-> s, ns |-> ns, lo |-> lo, hi |-> hi]

\* [...]
Cls(S) == Node("cls", S, <<>>, 0, 0)

\* [^...], \S, \D
NotCls(S) == Node("ncls", S, <<>>, 0, 0)

\* concatenation
Cat(ns) == Node("cat", {}, ns, 0, 0)

\* a|b|c, tried left to right
Alt(ns) == Node("alt", {}, ns, 0, 0)

\* n{lo,hi}, greedy
Rep(n, lo, hi) == Node("rep", {}, <<n>>, lo, hi)

\* n{lo,}, greedy
RepU(n, lo) == Node("repu", {}, <<n>>, lo, 0)

Opt(n) == Rep(n, 0, 1)

Star(n) == RepU(n, 0)

Plus(n) == RepU(n, 1)

\* \b
WordB == Node("wb", {}, <<>>, 0, 0)

\* (?=n)
LookAhead(n) == Node("la", {}, <<n>>, 0, 0)

\* (?<=n)
LookBehind(n) == Node("lb", {}, <<n>>, 0, 0)

\* a literal word of a case-sensitive pattern
Lit(w) == Node("lit", {}, w, 0, 0)

\* a literal word of an ignore-case pattern
LitI(w) == Node("liti", {}, w, 0, 0)

IsWordAt(text, p) == p >= 0 /\ p < Len(text) /\ text[p + 1] \in WordCh

Min(S) == CHOOSE x \in S : \A y \in S : x <= y

Max(S) == CHOOSE x \in S : \A y \in S : x >= y

\* does the one-character expression n (a class or its negation) accept c
Accepts(n, c) == IF n.k = "cls" THEN c \in n.s ELSE c \notin n.s

IsCharNode(n) == n.k \in {"cls", "ncls"}

\* the number of consecutive characters from pos that n accepts, at most cap
RunLen(text, n, pos, cap) ==
  Max({j \in 0..cap : /\ pos + j <= Len(text)
                      /\ \A i \in 1..j : Accepts(n, text[pos + i])})

\* the literal word w stands at pos (ic: ignoring case)
WordAt(text, w, pos, ic) ==
  /\ pos + Len(w) <= Len(text)
  /\ \A i \in 1..Len(w) :
       IF ic THEN LowerCh(text[pos + i]) = LowerCh(w[i]) ELSE text[pos + i] = w[i]

(***************************************************************************)
(* Backtracking matcher.  Ends(text, n, pos) is the sequence of the end    *)
(* offsets at which a match of n from offset pos can end, each once, in    *)
(* the order in which backtracking tries them: the first is the end of the *)
(* match the engine reports, the next is what it falls back to when what   *)
(* follows n fails there.                                                   *)
(***************************************************************************)
\* xs without the later occurrences of a value
Dedup(xs) ==
  LET kept == {i \in DOMAIN xs : \A j \in 1..(i - 1) : xs[j] # xs[i]}
  IN  [r \in 1..Cardinality(kept) |->
         xs[CHOOSE i \in kept : Cardinality({j \in kept : j < i}) = r - 1]]

\* greedy repetition of a one-character expression: the longest run first
RunEnds(text, n, lo, cap, pos) ==
  LET k == RunLen(text, n, pos, cap)
  IN  IF k < lo THEN <<>> ELSE [r \in 1..(k - lo + 1) |-> pos + k - (r - 1)]

RECURSIVE Ends(_, _, _), EndsFromAll(_, _, _, _, _), AltEnds(_, _, _, _, _),
          CatEnds(_, _, _, _), RepEnds(_, _, _, _, _, _),
          RepEndsFrom(_, _, _, _, _, _, _)

\* the ends of n from starts[a], then from starts[a + 1], ..., to starts[b]
EndsFromAll(text, n, starts, a, b) ==
  IF a > b THEN <<>>
  ELSE IF a = b THEN Ends(text, n, starts[a])
  ELSE LET mid == (a + b) \div 2
       IN  EndsFromAll(text, n, starts, a, mid) \o EndsFromAll(text, n, starts, mid + 1, b)

\* alternatives alts[a..b], the leftmost first
AltEnds(text, alts, pos, a, b) ==
  IF a > b THEN <<>>
  ELSE IF a = b THEN Ends(text, alts[a], pos)
  ELSE LET mid == (a + b) \div 2
       IN  AltEnds(text, alts, pos, a, mid) \o AltEnds(text, alts, pos, mid + 1, b)

\* ns[i], ns[i + 1], ... in a row, from each of starts
CatEnds(text, ns, i, starts) ==
  IF starts = <<>> \/ i > Len(ns) THEN starts
  ELSE CatEnds(text, ns, i + 1,
               Dedup(EndsFromAll(text, ns[i], starts, 1, Len(starts))))

\* greedy repetition of a composite expression after done iterations (hi = -1:
\* no upper bound): one more iteration first, then stopping here; an
\* iteration that matches the empty string is not repeated
RepEnds(text, n, lo, hi, pos, done) ==
  LET once == IF hi = -1 \/ done < hi
                THEN SelectSeq(Ends(text, n, pos), LAMBDA e : e > pos) ELSE <<>>
      more == RepEndsFrom(text, n, lo, hi, once, 1, done + 1)
  IN  IF more = <<>>
        THEN (IF done >= lo THEN <<pos>> ELSE <<>>)
        ELSE Dedup(more \o (IF done >= lo THEN <<pos>> ELSE <<>>))

\* the repetition continued from starts[r], then from starts[r + 1], ...
RepEndsFrom(text, n, lo, hi, starts, r, done) ==
  IF r > Len(starts) THEN <<>>
  ELSE IF r = Len(starts) THEN RepEnds(text, n, lo, hi, starts[r], done)
  ELSE RepEnds(text, n, lo, hi, starts[r], done) \o
       RepEndsFrom(text, n, lo, hi, starts, r + 1, done)

Ends(text, n, pos) ==
  CASE IsCharNode(n) ->
         IF pos < Len(text) /\ Accepts(n, text[pos + 1]) THEN <<pos + 1>> ELSE <<>>
    [] n.k \in {"lit", "liti"} ->
         IF WordAt(text, n.ns, pos, n.k = "liti") THEN <<pos + Len(n.ns)>> ELSE <<>>
    [] n.k = "cat" -> CatEnds(text, n.ns, 1, <<pos>>)
    [] n.k = "alt" -> Dedup(AltEnds(text, n.ns, pos, 1, Len(n.ns)))
    [] n.k = "rep" /\ IsCharNode(n.ns[1]) -> RunEnds(text, n.ns[1], n.lo, n.hi, pos)
    [] n.k = "repu" /\ IsCharNode(n.ns[1]) ->
         RunEnds(text, n.ns[1], n.lo, Len(text), pos)
    [] n.k = "rep" /\ ~IsCharNode(n.ns[1]) -> RepEnds(text, n.ns[1], n.lo, n.hi, pos, 0)
    [] n.k = "repu" /\ ~IsCharNode(n.ns[1]) -> RepEnds(text, n.ns[1], n.lo, -1, pos, 0)
    [] n.k = "wb" ->
         IF IsWordAt(text, pos - 1) # IsWordAt(text, pos) THEN <<pos>> ELSE <<>>
    [] n.k = "la" -> IF Ends(text, n.ns[1], pos) # <<>> THEN <<pos>> ELSE <<>>
    [] n.k = "lb" ->
         IF \E s \in 0..pos :
              LET es == Ends(text, n.ns[1], s)
              IN  \E r \in DOMAIN es : es[r] = pos
           THEN <<pos>> ELSE <<>>

\* the end of the match of re that starts at pos, or -1
MatchAt(text, re, pos) ==
  LET es == Ends(text, re, pos) IN IF es = <<>> THEN -1 ELSE es[1]

\* RegExp.prototype.exec of a global pattern from lastIndex: the leftmost
\* start at or after lastIndex with a match, as <<start, end>>, or <<>> for null
exec(re, text, lastIndex) ==
  LET ends == {<<s, MatchAt(text, re, s)>> : s \in lastIndex..Len(text)}
      ok == {r \in ends : r[2] # -1}
  IN  IF ok = {} THEN <<>>
      ELSE CHOOSE r \in ok : \A q \in ok : r[1] <= q[1]

(***************************************************************************)
(* DETECTION_PATTERNS: the ordered registry of detection rules             *)
(***************************************************************************)
\* [À-ÿ]
LatinUpperRange == {"À", "Á", "Â", "Ã", "Ä", "Å", "Æ", "Ç", "È", "É", "Ê", "Ë", "Ì", "Í", "Î", "Ï", "Ð", "Ñ", "Ò", "Ó", "Ô", "Õ", "Ö", "×", "Ø", "Ù", "Ú", "Û", "Ü", "Ý", "Þ", "ß", "à", "á", "â", "ã", "ä", "å", "æ", "ç", "è", "é", "ê", "ë", "ì", "í", "î", "ï", "ð", "ñ", "ò", "ó", "ô", "õ", "ö", "÷", "ø", "ù", "ú", "û", "ü", "ý", "þ", "ÿ"}

\* [à-ÿ]
LatinLowerRange == {"à", "á", "â", "ã", "ä", "å", "æ", "ç", "è", "é", "ê", "ë", "ì", "í", "î", "ï", "ð", "ñ", "ò", "ó", "ô", "õ", "ö", "÷", "ø", "ù", "ú", "û", "ü", "ý", "þ", "ÿ"}

\* [\s.-]
Sep == Space \cup {".", "-"}

\* [A-Za-zäöüßÄÖÜ]
Letter == Alpha \cup Umlaut

\* [A-ZÀ-ÿ]
NameUpper == Upper \cup LatinUpperRange

\* [a-zà-ÿ]
NameLower == Lower \cup LatinLowerRange

\* [a-zA-Z0-9_.-]
UserCh == AlNum \cup {"_", ".", "-"}

\* [\d_.-]
UserMark == Digit \cup {"_", ".", "-"}

D(lo, hi) == Rep(Cls(Digit), lo, hi)

Ch(c) == Cls({c})

Sp1 == Plus(Cls(Space))

Sp0 == Star(Cls(Space))

\* /[a-zA-Z0-9._%+-]+@[a-zA-Z0-9.-]+\.[a-zA-Z]{2,}/g
EmailRe ==
  Cat(<<Plus(Cls(AlNum \cup {".", "_", "%", "+", "-"})), Ch("@"),
        Plus(Cls(AlNum \cup {".", "-"})), Ch("."), RepU(Cls(Alpha), 2)>>)

\* /\b(?:\d{4}[-\s]?){3}\d{4}\b/g
CreditCardRe ==
  Cat(<<WordB, Rep(Cat(<<D(4, 4), Opt(Cls({"-"} \cup Space))>>), 3, 3), D(4, 4), WordB>>)

\* /\b\d{3}-\d{2}-\d{4}\b/g
SsnRe == Cat(<<WordB, D(3, 3), Ch("-"), D(2, 2), Ch("-"), D(4, 4), WordB>>)

\* /\b(?:sk|api|key|token|secret)[-_][a-zA-Z0-9]{16,}\b/gi
ApiKeyRe ==
  Cat(<<WordB,
        Alt(<<LitI(<<"s", "k">>),
              LitI(<<"a", "p", "i">>),
              LitI(<<"k", "e", "y">>),
              LitI(<<"t", "o", "k", "e", "n">>),
              LitI(<<"s", "e", "c", "r", "e", "t">>)>>),
        Cls({"-", "_"}), RepU(Cls(AlNum), 16), WordB>>)

\* /(?:password|passwd|pwd|secret|credential)[\s]*[:=][\s]*\S+/gi
PasswordRe ==
  Cat(<<Alt(<<LitI(<<"p", "a", "s", "s", "w", "o", "r", "d">>),
              LitI(<<"p", "a", "s", "s", "w", "d">>),
              LitI(<<"p", "w", "d">>),
              LitI(<<"s", "e", "c", "r", "e", "t">>),
              LitI(<<"c", "r", "e", "d", "e", "n", "t", "i", "a", "l">>)>>),
        Sp0, Cls({":", "="}), Sp0, Plus(NotCls(Space))>>)

\* /\+\d{1,3}[\s.-]?(?:\d[\s.-]?){8,14}\d\b
\*  |(?:\+?1[-.\s]?)?\(?\d{3}\)?[-.\s]?\d{3}[-.\s]?\d{4}\b/g
PhoneRe ==
  Alt(<<Cat(<<Ch("+"), D(1, 3), Opt(Cls(Sep)),
              Rep(Cat(<<Cls(Digit), Opt(Cls(Sep))>>), 8, 14), Cls(Digit), WordB>>),
        Cat(<<Opt(Cat(<<Opt(Ch("+")), Ch("1"), Opt(Cls(Sep))>>)),
              Opt(Ch("(")), D(3, 3), Opt(Ch(")")), Opt(Cls(Sep)),
              D(3, 3), Opt(Cls(Sep)), D(4, 4), WordB>>)>>)

\* /\b[A-Za-zäöüßÄÖÜ][A-Za-zäöüßÄÖÜ\w]*(?:strasse|straße|platz|weg|gasse|street|road|avenue)
\*  \s+\d{1,5},\s*\d{4,6}\s+[A-Za-zäöüßÄÖÜ][A-Za-zäöüßÄÖÜ\s]*(?:,\s*[A-Za-zäöüßÄÖÜ\s]+)?/gi
AddressEuRe ==
  Cat(<<WordB, Cls(Letter), Star(Cls(Letter \cup WordCh)),
        Alt(<<LitI(<<"s", "t", "r", "a", "s", "s", "e">>),
              LitI(<<"s", "t", "r", "a", "ß", "e">>),
              LitI(<<"p", "l", "a", "t", "z">>),
              LitI(<<"w", "e", "g">>),
              LitI(<<"g", "a", "s", "s", "e">>),
              LitI(<<"s", "t", "r", "e", "e", "t">>),
              LitI(<<"r", "o", "a", "d">>),
              LitI(<<"a", "v", "e", "n", "u", "e">>)>>),
        Sp1, D(1, 5), Ch(","), Sp0, D(4, 6), Sp1,
        Cls(Letter), Star(Cls(Letter \cup Space)),
        Opt(Cat(<<Ch(","), Sp0, Plus(Cls(Letter \cup Space))>>))>>)

\* /\b\d{1,5}\s+[A-Z][a-zA-ZäöüßÄÖÜ]*(?:\s+[A-Za-zäöüßÄÖÜ]+)*\s+
\*  (?:St(?:reet)?|Ave(?:nue)?|Blvd|Boulevard|Dr(?:ive)?|Rd|Road|Ln|Lane|Way|Ct|Court|Pl(?:ace)?|Cir(?:cle)?)
\*  \.?(?:\s*,?\s*[A-Z][a-zA-Z\s]*,?\s*[A-Z]{2}\s*\d{5}(?:-\d{4})?)?/g
AddressUsRe ==
  Cat(<<WordB, D(1, 5), Sp1, Cls(Upper), Star(Cls(Letter)),
        Star(Cat(<<Sp1, Plus(Cls(Letter))>>)), Sp1,
        Alt(<<Cat(<<Lit(<<"S", "t">>), Opt(Lit(<<"r", "e", "e", "t">>))>>),
              Cat(<<Lit(<<"A", "v", "e">>), Opt(Lit(<<"n", "u", "e">>))>>),
              Lit(<<"B", "l", "v", "d">>),
              Lit(<<"B", "o", "u", "l", "e", "v", "a", "r", "d">>),
              Cat(<<Lit(<<"D", "r">>), Opt(Lit(<<"i", "v", "e">>))>>),
              Lit(<<"R", "d">>),
              Lit(<<"R", "o", "a", "d">>),
              Lit(<<"L", "n">>),
              Lit(<<"L", "a", "n", "e">>),
              Lit(<<"W", "a", "y">>),
              Lit(<<"C", "t">>),
              Lit(<<"C", "o", "u", "r", "t">>),
              Cat(<<Lit(<<"P", "l">>), Opt(Lit(<<"a", "c", "e">>))>>),
              Cat(<<Lit(<<"C", "i", "r">>), Opt(Lit(<<"c", "l", "e">>))>>)>>),
        Opt(Ch(".")),
        Opt(Cat(<<Sp0, Opt(Ch(",")), Sp0, Cls(Upper), Star(Cls(Alpha \cup Space)),
                  Opt(Ch(",")), Sp0, Rep(Cls(Upper), 2, 2), Sp0, D(5, 5),
                  Opt(Cat(<<Ch("-"), D(4, 4)>>))>>))>>)

\* /\b\d{1,5}\s+[A-Za-zäöüßÄÖÜ][A-Za-zäöüßÄÖÜ\s]*,\s*\d{4,6}\s+
\*  [A-Za-zäöüßÄÖÜ][A-Za-zäöüßÄÖÜ\s]*(?:,\s*[A-Za-zäöüßÄÖÜ\s]+)?/g
AddressNumRe ==
  Cat(<<WordB, D(1, 5), Sp1, Cls(Letter), Star(Cls(Letter \cup Space)),
        Ch(","), Sp0, D(4, 6), Sp1, Cls(Letter), Star(Cls(Letter \cup Space)),
        Opt(Cat(<<Ch(","), Sp0, Plus(Cls(Letter \cup Space))>>))>>)

\* [A-ZÀ-ÿ][a-zà-ÿ]+
NameWord == Cat(<<Cls(NameUpper), Plus(Cls(NameLower))>>)

\* /\b(?:Mr|Mrs|Ms|Miss|Dr|Prof)\.?\s+[A-ZÀ-ÿ][a-zà-ÿ]+(?:\s+[A-ZÀ-ÿ][a-zà-ÿ]+)+\b/g
NameTitleRe ==
  Cat(<<WordB,
        Alt(<<Lit(<<"M", "r">>),
              Lit(<<"M", "r", "s">>),
              Lit(<<"M", "s">>),
              Lit(<<"M", "i", "s", "s">>),
              Lit(<<"D", "r">>),
              Lit(<<"P", "r", "o", "f">>)>>),
        Opt(Ch(".")), Sp1, NameWord, Plus(Cat(<<Sp1, NameWord>>)), WordB>>)

\* /\b[A-ZÀ-ÿ][a-zà-ÿ]+(?:\s+[A-ZÀ-ÿ][a-zà-ÿ]+)+\b
\*  (?=\s*[,.]?\s*(?:born|lives|works|can be reached|logs in|was|is|has|her|his)\b)/g
NameContextRe ==
  Cat(<<WordB, NameWord, Plus(Cat(<<Sp1, NameWord>>)), WordB,
        LookAhead(Cat(<<Sp0, Opt(Cls({",", "."})), Sp0,
                        Alt(<<Lit(<<"b", "o", "r", "n">>),
                              Lit(<<"l", "i", "v", "e", "s">>),
                              Lit(<<"w", "o", "r", "k", "s">>),
                              Lit(<<"c", "a", "n", " ", "b", "e", " ", "r", "e", "a", "c", "h", "e", "d">>),
                              Lit(<<"l", "o", "g", "s", " ", "i", "n">>),
                              Lit(<<"w", "a", "s">>),
                              Lit(<<"i", "s">>),
                              Lit(<<"h", "a", "s">>),
                              Lit(<<"h", "e", "r">>),
                              Lit(<<"h", "i", "s">>)>>),
                        WordB>>))>>)

\* [a-zA-Z0-9]*[\d_.-][a-zA-Z0-9_.-]{1,hi}\b
UserToken(hi) ==
  Cat(<<Star(Cls(AlNum)), Cls(UserMark), Rep(Cls(UserCh), 1, hi), WordB>>)

\* /(?<=username\s+)[a-zA-Z0-9]*[\d_.-][a-zA-Z0-9_.-]{1,30}\b/gi
UsernameAfterRe ==
  Cat(<<LookBehind(Cat(<<LitI(<<"u", "s", "e", "r", "n", "a", "m", "e">>), Sp1>>)), UserToken(30)>>)

\* /\b[a-zA-Z0-9]*[\d_.-][a-zA-Z0-9_.-]{1,30}\b(?=\s+(?:from|to|@|logs|using)\s)/gi
UsernameBeforeRe ==
  Cat(<<WordB, UserToken(30),
        LookAhead(Cat(<<Sp1,
                        Alt(<<LitI(<<"f", "r", "o", "m">>),
                              LitI(<<"t", "o">>),
                              LitI(<<"@">>),
                              LitI(<<"l", "o", "g", "s">>),
                              LitI(<<"u", "s", "i", "n", "g">>)>>),
                        Cls(Space)>>))>>)

\* /(?<=using\s+the\s+username\s+)[a-zA-Z0-9]*[\d_.-][a-zA-Z0-9_.-]{1,29}\b/gi
UsernameUsingRe ==
  Cat(<<LookBehind(Cat(<<LitI(<<"u", "s", "i", "n", "g">>), Sp1, LitI(<<"t", "h", "e">>), Sp1, LitI(<<"u", "s", "e", "r", "n", "a", "m", "e">>), Sp1>>)),
        UserToken(29)>>)

\* (?:25[0-5]|2[0-4]\d|1?\d\d?)
Octet ==
  Alt(<<Cat(<<Lit(<<"2", "5">>), Cls({"0", "1", "2", "3", "4", "5"})>>),
        Cat(<<Ch("2"), Cls({"0", "1", "2", "3", "4"}), Cls(Digit)>>),
        Cat(<<Opt(Ch("1")), Cls(Digit), Opt(Cls(Digit))>>)>>)

\* /\b(?:(?:25[0-5]|2[0-4]\d|1?\d\d?)\.){3}(?:25[0-5]|2[0-4]\d|1?\d\d?)\b/g
IpRe == Cat(<<WordB, Rep(Cat(<<Octet, Ch(".")>>), 3, 3), Octet, WordB>>)

\* /\b(?:born\s+on\s+)?\d{1,2}\s+(?:January|...|December)\s+\d{4}\b/gi
DobDayMonthRe ==
  Cat(<<WordB, Opt(Cat(<<LitI(<<"b", "o", "r", "n">>), Sp1, LitI(<<"o", "n">>), Sp1>>)), D(1, 2), Sp1,
        Alt(<<LitI(<<"J", "a", "n", "u", "a", "r", "y">>),
              LitI(<<"F", "e", "b", "r", "u", "a", "r", "y">>),
              LitI(<<"M", "a", "r", "c", "h">>),
              LitI(<<"A", "p", "r", "i", "l">>),
              LitI(<<"M", "a", "y">>),
              LitI(<<"J", "u", "n", "e">>),
              LitI(<<"J", "u", "l", "y">>),
              LitI(<<"A", "u", "g", "u", "s", "t">>),
              LitI(<<"S", "e", "p", "t", "e", "m", "b", "e", "r">>),
              LitI(<<"O", "c", "t", "o", "b", "e", "r">>),
              LitI(<<"N", "o", "v", "e", "m", "b", "e", "r">>),
              LitI(<<"D", "e", "c", "e", "m", "b", "e", "r">>)>>),
        Sp1, D(4, 4), WordB>>)

\* /\b(?:January|...|December)\s+\d{1,2},?\s+\d{4}\b/g
DobMonthDayRe ==
  Cat(<<WordB,
        Alt(<<Lit(<<"J", "a", "n", "u", "a", "r", "y">>),
              Lit(<<"F", "e", "b", "r", "u", "a", "r", "y">>),
              Lit(<<"M", "a", "r", "c", "h">>),
              Lit(<<"A", "p", "r", "i", "l">>),
              Lit(<<"M", "a", "y">>),
              Lit(<<"J", "u", "n", "e">>),
              Lit(<<"J", "u", "l", "y">>),
              Lit(<<"A", "u", "g", "u", "s", "t">>),
              Lit(<<"S", "e", "p", "t", "e", "m", "b", "e", "r">>),
              Lit(<<"O", "c", "t", "o", "b", "e", "r">>),
              Lit(<<"N", "o", "v", "e", "m", "b", "e", "r">>),
              Lit(<<"D", "e", "c", "e", "m", "b", "e", "r">>)>>),
        Sp1, D(1, 2), Opt(Ch(",")), Sp1, D(4, 4), WordB>>)

\* /\b\d{4}-\d{2}-\d{2}\b/g
DobIsoRe == Cat(<<WordB, D(4, 4), Ch("-"), D(2, 2), Ch("-"), D(2, 2), WordB>>)

\* /\b\d{1,2}[./]\d{1,2}[./]\d{4}\b/g
DobNumericRe ==
  Cat(<<WordB, D(1, 2), Cls({".", "/"}), D(1, 2), Cls({".", "/"}), D(4, 4), WordB>>)

\* /\b(?:bank\s+account|account\s+at\s+(?:a\s+)?(?:Swiss|local|their)\s+bank)\b/gi
BankRe ==
  Cat(<<WordB,
        Alt(<<Cat(<<LitI(<<"b", "a", "n", "k">>), Sp1, LitI(<<"a", "c", "c", "o", "u", "n", "t">>)>>),
              Cat(<<LitI(<<"a", "c", "c", "o", "u", "n", "t">>), Sp1, LitI(<<"a", "t">>), Sp1, Opt(Cat(<<LitI(<<"a">>), Sp1>>)),
                    Alt(<<LitI(<<"S", "w", "i", "s", "s">>),
                          LitI(<<"l", "o", "c", "a", "l">>),
                          LitI(<<"t", "h", "e", "i", "r">>)>>),
                    Sp1, LitI(<<"b", "a", "n", "k">>)>>)>>),
        WordB>>)

\* /\b(?:health\s+insurance\s+records?|medical\s+(?:visits?|records?|history)
\*  |patient\s+information)\b/gi
MedicalRe ==
  Cat(<<WordB,
        Alt(<<Cat(<<LitI(<<"h", "e", "a", "l", "t", "h">>), Sp1, LitI(<<"i", "n", "s", "u", "r", "a", "n", "c", "e">>), Sp1, LitI(<<"r", "e", "c", "o", "r", "d">>), Opt(LitI(<<"s">>))>>),
              Cat(<<LitI(<<"m", "e", "d", "i", "c", "a", "l">>), Sp1,
                    Alt(<<Cat(<<LitI(<<"v", "i", "s", "i", "t">>), Opt(LitI(<<"s">>))>>),
                          Cat(<<LitI(<<"r", "e", "c", "o", "r", "d">>), Opt(LitI(<<"s">>))>>),
                          LitI(<<"h", "i", "s", "t", "o", "r", "y">>)>>)>>),
              Cat(<<LitI(<<"p", "a", "t", "i", "e", "n", "t">>), Sp1, LitI(<<"i", "n", "f", "o", "r", "m", "a", "t", "i", "o", "n">>)>>)>>),
        WordB>>)

Rule(type, label, pattern, prefix) ==
  [type |-> type, label |-> label, pattern |-> pattern, prefix |-> prefix]

DETECTION_PATTERNS ==
  <<Rule("email", "Email Address", EmailRe,
         <<"E", "M", "A", "I", "L">>),
    Rule("credit_card", "Credit Card Number", CreditCardRe,
         <<"C", "R", "E", "D", "I", "T", "_", "C", "A", "R", "D">>),
    Rule("ssn", "Social Security Number", SsnRe,
         <<"S", "S", "N">>),
    Rule("api_key", "API Key", ApiKeyRe,
         <<"A", "P", "I", "_", "K", "E", "Y">>),
    Rule("password", "Password / Credential", PasswordRe,
         <<"P", "A", "S", "S", "W", "O", "R", "D">>),
    Rule("phone", "Phone Number", PhoneRe,
         <<"P", "H", "O", "N", "E">>),
    Rule("address", "Physical Address", AddressEuRe,
         <<"A", "D", "D", "R", "E", "S", "S">>),
    Rule("address", "Physical Address", AddressUsRe,
         <<"A", "D", "D", "R", "E", "S", "S">>),
    Rule("address", "Physical Address", AddressNumRe,
         <<"A", "D", "D", "R", "E", "S", "S">>),
    Rule("name", "Personal Name", NameTitleRe,
         <<"N", "A", "M", "E">>),
    Rule("name", "Personal Name", NameContextRe,
         <<"N", "A", "M", "E">>),
    Rule("username", "Username", UsernameAfterRe,
         <<"U", "S", "E", "R", "N", "A", "M", "E">>),
    Rule("username", "Username", UsernameBeforeRe,
         <<"U", "S", "E", "R", "N", "A", "M", "E">>),
    Rule("username", "Username", UsernameUsingRe,
         <<"U", "S", "E", "R", "N", "A", "M", "E">>),
    Rule("ip_address", "IP Address", IpRe,
         <<"I", "P", "_", "A", "D", "D", "R", "E", "S", "S">>),
    Rule("date_of_birth", "Date of Birth", DobDayMonthRe,
         <<"D", "O", "B">>),
    Rule("date_of_birth", "Date of Birth", DobMonthDayRe,
         <<"D", "O", "B">>),
    Rule("date_of_birth", "Date of Birth", DobIsoRe,
         <<"D", "O", "B">>),
    Rule("date_of_birth", "Date of Birth", DobNumericRe,
         <<"D", "O", "B">>),
    Rule("bank_reference", "Bank / Account Reference", BankRe,
         <<"B", "A", "N", "K", "_", "R", "E", "F">>),
    Rule("medical_reference", "Medical / Health Reference", MedicalRe,
         <<"M", "E", "D", "I", "C", "A", "L", "_", "R", "E", "F">>)>>

\* Common words that must never be flagged as usernames
USERNAME_BLOCKLIST ==
  {<<"a", "n", "d">>,
   <<"t", "h", "e">>,
   <<"h", "e", "r">>,
   <<"h", "i", "s">>,
   <<"f", "r", "o", "m">>,
   <<"t", "o">>,
   <<"f", "o", "r">>,
   <<"a", "r", "e">>,
   <<"c", "a", "n">>,
   <<"h", "a", "s">>,
   <<"h", "a", "d">>,
   <<"n", "o", "t">>,
   <<"y", "o", "u">>,
   <<"y", "o", "u", "r">>,
   <<"d", "a", "i", "l", "y">>,
   <<"w", "e", "e", "k", "l", "y">>,
   <<"m", "o", "n", "t", "h", "l", "y">>,
   <<"y", "e", "a", "r", "l", "y">>,
   <<"o", "n", "l", "y">>,
   <<"j", "u", "s", "t">>,
   <<"w", "i", "t", "h">>,
   <<"u", "s", "i", "n", "g">>,
   <<"l", "o", "g", "s">>,
   <<"l", "o", "g">>,
   <<"i", "n", "t", "o">>,
   <<"o", "u", "t">>,
   <<"a", "l", "l">>,
   <<"a", "n", "y">>,
   <<"n", "e", "w">>,
   <<"o", "l", "d">>,
   <<"o", "w", "n">>,
   <<"s", "e", "e">>,
   <<"w", "a", "y">>,
   <<"h", "o", "w">>,
   <<"w", "h", "o">>,
   <<"w", "h", "a", "t">>,
   <<"w", "h", "e", "n">>,
   <<"w", "h", "e", "r", "e">>,
   <<"m", "a", "y">>,
   <<"w", "i", "l", "l">>,
   <<"w", "o", "u", "l", "d">>,
   <<"c", "o", "u", "l", "d">>,
   <<"s", "h", "o", "u", "l", "d">>,
   <<"a", "b", "o", "u", "t">>,
   <<"a", "f", "t", "e", "r">>,
   <<"b", "e", "f", "o", "r", "e">>,
   <<"b", "e", "t", "w", "e", "e", "n">>,
   <<"u", "n", "d", "e", "r">>}

(***************************************************************************)
(* String helpers of the language runtime                                  *)
(***************************************************************************)
\* String.prototype.substring(a, b): both ends clamped to the string, swapped
\* when a > b
Clamp(n, len) == IF n < 0 THEN 0 ELSE IF n > len THEN len ELSE n

substring(s, a, b) ==
  LET x == Clamp(a, Len(s))
      y == Clamp(b, Len(s))
      from == IF x <= y THEN x ELSE y
      to == IF x <= y THEN y ELSE x
  IN  SubSeq(s, from + 1, to)

\* String.prototype.substring(a)
substringFrom(s, a) == substring(s, a, Len(s))

\* the decimal digits of a natural number, as template literals print it
RECURSIVE NumToStr(_)
NumToStr(n) ==
  LET d == <<"0", "1", "2", "3", "4", "5", "6", "7", "8", "9">>[(n % 10) + 1]
  IN  IF n < 10 THEN <<d>> ELSE NumToStr(n \div 10) \o <<d>>

\* match[0].replace(/\D/g, '')
DigitsOf(s) == SelectSeq(s, LAMBDA c : c \in Digit)

\* String.prototype.includes / a search string standing at offset p
OccursAt(s, sub, p) ==
  /\ p >= 0
  /\ p + Len(sub) <= Len(s)
  /\ \A i \in 1..Len(sub) : s[p + i] = sub[i]

includes(s, sub) == \E p \in 0..Len(s) : OccursAt(s, sub, p)

(***************************************************************************)
(* src/lib/guardrail: detection                                            *)
(***************************************************************************)
\* variant: the second comparison takes the end of b for its start
rangesOverlap_EndForStart(a, b) == a[1] < b[2] /\ b[2] < a[2]

rangesOverlap(a, b) == a[1] < b[2] /\ b[1] < a[2]

looksLikeUsername(token) == toLowerCase(token) \notin USERNAME_BLOCKLIST

\* counters[prefix] || 0
CounterOf(counters, prefix) ==
  IF prefix \in DOMAIN counters THEN counters[prefix] ELSE 0

\* variant: the incremented counter is not stored
Bump_NotStored(counters, prefix) ==
  [p \in DOMAIN counters \cup {prefix} |-> CounterOf(counters, p)]

\* counters after getPlaceholder(prefix)
Bump(counters, prefix) ==
  [p \in DOMAIN counters \cup {prefix} |->
     IF p = prefix THEN CounterOf(counters, prefix) + 1 ELSE counters[p]]

\* `[${prefix}_${n}]`
Placeholder(prefix, n) == <<"[">> \o prefix \o <<"_">> \o NumToStr(n) \o <<"]">>

\* variant: the placeholder is numbered before the increment
getPlaceholder_PreIncrement(counters, prefix) ==
  Placeholder(prefix, CounterOf(counters, prefix))

\* the string getPlaceholder(prefix) returns
getPlaceholder(counters, prefix) == Placeholder(prefix, CounterOf(counters, prefix) + 1)

ItemId_TypeOnly(type, start, end) == <<type>>

\* `${pattern.type}-${start}-${end}`; the type name is kept as one token
ItemId(type, start, end) ==
  <<type, "-">> \o NumToStr(start) \o <<"-">> \o NumToStr(end)

PassesValidator_Always(type, matched) == TRUE

\* the validators of the match loop: TRUE when the candidate is kept
PassesValidator(type, matched) ==
  /\ type = "ssn" => Len(DigitsOf(matched)) = 9
  /\ type = "phone" => ~(Len(DigitsOf(matched)) < 10 \/ Len(DigitsOf(matched)) > 15)
  /\ type = "username" => looksLikeUsername(matched)

\* Array.prototype.sort with the comparator dir * (a.startIndex - b.startIndex):
\* a stable sort, x goes before y only when the comparator is negative
Compare(dir, a, b) == dir * (a.startIndex - b.startIndex)

RECURSIVE InsertSorted(_, _, _)
InsertSorted(x, sorted, dir) ==
  IF sorted = <<>> THEN <<x>>
  ELSE IF Compare(dir, x, Head(sorted)) < 0 THEN <<x>> \o sorted
  ELSE <<Head(sorted)>> \o InsertSorted(x, Tail(sorted), dir)

RECURSIVE SortPrefix(_, _, _)
SortPrefix(xs, i, dir) ==
  IF i = 0 THEN <<>>
  ELSE InsertSorted(xs[i], SortPrefix(xs, i - 1, dir), dir)

\* items.sort((a, b) => a.startIndex - b.startIndex)
sortAscending(xs) == SortPrefix(xs, Len(xs), 1)

\* variant: the splice order is ascending
sortDescending_Ascending(xs) == SortPrefix(xs, Len(xs), 1)

\* items.sort((a, b) => b.startIndex - a.startIndex)
sortDescending(xs) == SortPrefix(xs, Len(xs), -1)

(***************************************************************************)
(* src/lib/guardrail: redaction, mapping and restore                       *)
(***************************************************************************)
\* one step of the splice loop of applyReplacements
Splice(result, item) ==
  substring(result, 0, item.startIndex) \o item.replacement
    \o substringFrom(result, item.endIndex)

RECURSIVE SpliceAll(_, _, _)
SpliceAll(result, active, i) ==
  IF i > Len(active) THEN result
  ELSE SpliceAll(Splice(result, active[i]), active, i + 1)

applyReplacements(text, its) ==
  LET active == sortDescending(SelectSeq(its, LAMBDA item : ~item.ignored))
  IN  SpliceAll(text, active, 1)

\* A ReplacementMapping is the sequence of its entries [k, v] in property
\* order: string keys that are not array indices enumerate in insertion order.
KeysOf(mapping) == {mapping[i].k : i \in DOMAIN mapping}

HasKey(mapping, k) == k \in KeysOf(mapping)

ValueOf(mapping, k) == mapping[CHOOSE i \in DOMAIN mapping : mapping[i].k = k].v

\* mapping[k] = v: an existing key keeps its place, a new key goes last
SetKey(mapping, k, v) ==
  IF HasKey(mapping, k)
    THEN [i \in DOMAIN mapping |-> IF mapping[i].k = k THEN [k |-> k, v |-> v]
                                                      ELSE mapping[i]]
    ELSE Append(mapping, [k |-> k, v |-> v])

RECURSIVE BuildFrom(_, _, _)
BuildFrom(mapping, its, i) ==
  IF i > Len(its) THEN mapping
  ELSE BuildFrom(IF ~its[i].ignored
                   THEN SetKey(mapping, its[i].replacement, its[i].original)
                   ELSE mapping,
                 its, i + 1)

\* variant: the ignored flag is not consulted
RECURSIVE BuildAllFrom(_, _, _)
BuildAllFrom(mapping, its, i) ==
  IF i > Len(its) THEN mapping
  ELSE BuildAllFrom(SetKey(mapping, its[i].replacement, its[i].original), its, i + 1)

buildReplacementMapping_IgnoredToo(its) == BuildAllFrom(<<>>, its, 1)

buildReplacementMapping(its) == BuildFrom(<<>>, its, 1)

\* GetSubstitution of the language standard for a string pattern (no captures):
\* $$ is $, $& the matched text, $` the text before the match, $' the text
\* after it; any other $ is literal
RECURSIVE GetSubstitution(_, _, _, _, _)
GetSubstitution(matched, str, position, template, i) ==
  IF i > Len(template) THEN <<>>
  ELSE IF template[i] = "$" /\ i < Len(template) /\ template[i + 1] = "$"
    THEN <<"$">> \o GetSubstitution(matched, str, position, template, i + 2)
  ELSE IF template[i] = "$" /\ i < Len(template) /\ template[i + 1] = "&"
    THEN matched \o GetSubstitution(matched, str, position, template, i + 2)
  ELSE IF template[i] = "$" /\ i < Len(template) /\ template[i + 1] = "`"
    THEN substring(str, 0, position)
           \o GetSubstitution(matched, str, position, template, i + 2)
  ELSE IF template[i] = "$" /\ i < Len(template) /\ template[i + 1] = "'"
    THEN substringFrom(str, position + Len(matched))
           \o GetSubstitution(matched, str, position, template, i + 2)
  ELSE <<template[i]>> \o GetSubstitution(matched, str, position, template, i + 1)

\* variant: the text after the last occurrence is not appended
RECURSIVE ReplaceFrom_NoTail(_, _, _, _)
ReplaceFrom_NoTail(str, search, template, from) ==
  LET occ == {p \in from..Len(str) : OccursAt(str, search, p)}
  IN  IF occ = {} THEN <<>>
      ELSE LET p == Min(occ)
               advance == IF Len(search) > 0 THEN Len(search) ELSE 1
           IN  substring(str, from, p)
                 \o GetSubstitution(search, str, p, template, 1)
                 \o (IF Len(search) = 0 /\ p < Len(str) THEN <<str[p + 1]>> ELSE <<>>)
                 \o (IF p + advance > Len(str) THEN <<>>
                     ELSE ReplaceFrom_NoTail(str, search, template, p + advance))

\* String.prototype.replaceAll(search, template) with a string pattern: the
\* occurrences of search are found left to right without overlap in str, each
\* is replaced by the substitution of template
RECURSIVE ReplaceFrom(_, _, _, _)
ReplaceFrom(str, search, template, from) ==
  LET occ == {p \in from..Len(str) : OccursAt(str, search, p)}
  IN  IF occ = {} THEN substringFrom(str, from)
      ELSE LET p == Min(occ)
               advance == IF Len(search) > 0 THEN Len(search) ELSE 1
           IN  substring(str, from, p)
                 \o GetSubstitution(search, str, p, template, 1)
                 \o (IF Len(search) = 0 /\ p < Len(str) THEN <<str[p + 1]>> ELSE <<>>)
                 \o (IF p + advance > Len(str) THEN <<>>
                     ELSE ReplaceFrom(str, search, template, p + advance))

replaceAll(str, search, template) == ReplaceFrom(str, search, template, 0)

RECURSIVE RestoreFrom(_, _, _)
RestoreFrom(result, mapping, i) ==
  IF i > Len(mapping) THEN result
  ELSE RestoreFrom(replaceAll(result, mapping[i].k, mapping[i].v), mapping, i + 1)

restoreOriginals(text, mapping) == RestoreFrom(text, mapping, 1)

\* variant: every key has to occur
hasMappablePlaceholders_Every(text, mapping) ==
  IF text = <<>> \/ Len(mapping) = 0 THEN FALSE
  ELSE \A i \in DOMAIN mapping : includes(text, mapping[i].k)

hasMappablePlaceholders(text, mapping) ==
  IF text = <<>> \/ Len(mapping) = 0 THEN FALSE
  ELSE \E i \in DOMAIN mapping : includes(text, mapping[i].k)

(***************************************************************************)
(* The texts of the model: at most MaxWords words joined by single spaces  *)
(***************************************************************************)
MaxWords == 2

Words ==
  {<<"a", "@", "b", ".", "c", "o">>,
   <<"[", "E", "M", "A", "I", "L", "_", "1", "]">>,
   <<"p", "w", "d", "=", "$", "$">>,
   <<"1", "4", ".", "0", "3", ".", "1", "9", "9", "6">>,
   <<"1", "9", "9", "6", "-", "0", "3", "-", "1", "4">>,
   <<"1", "2", "3", "-", "4", "5", "-", "6", "7", "8", "9">>,
   <<"p", "w", "d", "=", "a", "@", "b", ".", "c", "o">>,
   <<"x">>}

RECURSIVE Join(_)
Join(ws) ==
  IF ws = <<>> THEN <<>>
  ELSE IF Len(ws) = 1 THEN ws[1]
  ELSE ws[1] \o <<" ">> \o Join(Tail(ws))

\* texts with a phone candidate of 17 digits, which the validator drops, next to
\* a password candidate that overlaps an e-mail address; with a phone number
\* that starts where an e-mail address ends; with a password candidate that
\* holds an IP address and an e-mail address; and with a username
LongTexts ==
  {<<"u", "s", "e", "r", "n", "a", "m", "e", " ", "a", ".", "b">>,
   <<"p", "w", "d", "=", "1", ".", "2", ".", "3", ".", "4", ",", "a", "@", "b", ".",
     "c", "o">>,
   <<"p", "w", "d", "=", "a", "@", "b", ".", "c", "o", " ", "+", "1", "2", "3", "4",
     "5", "6", "7", "8", "9", "0", "1", "2", "3", "4", "5", "6", "7">>,
   <<"a", "@", "b", ".", "c", "o", "+", "1", "2", "3", "4", "5", "6", "7", "8", "9",
     "0", "1">>}

Texts == {Join(ws) : ws \in UNION {[1..n -> Words] : n \in 0..MaxWords}} \cup LongTexts

(***************************************************************************)
(* State                                                                   *)
(***************************************************************************)
VARIABLES
  text,        \* the text detectSensitiveInfo was called with
  pc,          \* "scan", "clean", "modal", "confirmed", "raw"; "idle" without a scan
  ruleIdx,     \* index of the rule of the outer loop
  lastIndex,   \* regex.lastIndex of the rule's pattern
  counters,    \* counters of getPlaceholder
  items,       \* items of the scan
  usedRanges,  \* usedRanges of the scan
  acceptedBy,  \* history: index of the rule that pushed each entry of usedRanges
  candidates,  \* history: the matches exec returned in this call, in order:
               \* the rule, the range, and whether an item was pushed for it
  result,      \* the GuardrailResult returned
  modalItems,  \* items state of GuardrailModal
  processed,   \* processedText handed to onConfirm
  mapping,     \* mapping handed to onConfirm
  op,          \* the library function called directly, "none" before the call
  argText,     \* its text argument
  argItems,    \* its items argument
  argMapping,  \* its mapping argument
  out,         \* the value it returned
  callNo       \* history: the number of the detectSensitiveInfo call, from 1

\* state of the views (EmailView, TranslationView, SummarizeView, ChatView)
VARIABLES
  surface,             \* the view that is shown; "none" when no view runs
  input,               \* body / sourceText / text / input of the view
  polishInput,         \* polishInput of EmailView
  mode,                \* mode of EmailView, inputMethod of SummarizeView,
                       \* sourceLang of TranslationView ("auto" or "fixed")
  guardrailData,       \* <<>> for null, else <<[text, items]>>; items is the
                       \* items state of the GuardrailModal that is shown
  replacementMapping,  \* replacementMapping of useReplacementDisplay
  revealed,            \* revealed of useReplacementDisplay
  output,              \* result / translation / summary
  isLoading,           \* isLoading of the view
  inflight,            \* the request the backend has not answered yet
  conversations,       \* conversations of ConversationProvider
  currentId,           \* currentIdRef.current, 0 for null
  revealedMessageIds,  \* revealedMessageIds of ChatView
  nextId,              \* the id generateId returns next
  stored,              \* localStorage item arcas_replacement_mappings, for one conversation id
  saved,               \* localStorage as saveConversations and
                       \* saveCurrentConversationId left it
  pending,             \* the updaters handed to setConversations that React has
                       \* queued for the next render, oldest first
  lastReq,             \* history: the last request handed to fetch
  confirmedFor,        \* history: input and processed text of the last Replace & Send
  event,               \* history: the handler that ran last, with its arguments
  detections           \* detectSensitiveInfo on the texts a user types, computed
                       \* once: the function is pure and the table never changes

\* state of one POST of the chat API route
VARIABLES
  routePc,     \* "idle" before a request, "attempt" inside the retry loop,
               \* "done" once the response is returned
  attempt,     \* attempt of the retry loop
  lastError,   \* lastError: <<>> for null, else <<error>>
  response,    \* the response returned: <<>> before, else <<[status, code]>>
  calls        \* history: what each openai.chat.completions.create of this
               \* request was preceded by and ended with

scanVars == <<text, pc, ruleIdx, lastIndex, counters, items, usedRanges, acceptedBy,
              candidates,
              result, modalItems, processed, mapping, callNo>>

uiVars == <<surface, input, polishInput, mode, guardrailData, replacementMapping,
            revealed, output, isLoading, inflight, conversations, currentId,
            revealedMessageIds, nextId, stored, saved, pending, lastReq,
            confirmedFor, event, detections>>

callVars == <<op, argText, argItems, argMapping, out>>

routeVars == <<routePc, attempt, lastError, response, calls>>

vars == <<scanVars, callVars, uiVars, routeVars>>

NoCall ==
  /\ op = "none"
  /\ argText = <<>>
  /\ argItems = <<>>
  /\ argMapping = <<>>
  /\ out = <<>>

\* no request is being handled
NoRoute ==
  /\ routePc = "idle"
  /\ attempt = 0
  /\ lastError = <<>>
  /\ response = <<>>
  /\ calls = <<>>

NoResult == [hasSensitiveInfo |-> FALSE, items |-> <<>>, anonymizedText |-> <<>>]

NoRequest == [body |-> <<>>, expected |-> <<>>]

NoEvent == [op |-> "none", M |-> <<>>, m |-> <<>>, id |-> 0]

\* nothing was saved: getConversations() is [], getCurrentConversationId() null
NoSaved == [conversations |-> <<>>, currentId |-> 0]

\* no view is running
NoView ==
  /\ surface = "none"
  /\ input = <<>>
  /\ polishInput = <<>>
  /\ mode = "none"
  /\ guardrailData = <<>>
  /\ replacementMapping = <<>>
  /\ revealed = FALSE
  /\ output = <<>>
  /\ isLoading = FALSE
  /\ inflight = <<>>
  /\ conversations = <<>>
  /\ currentId = 0
  /\ revealedMessageIds = {}
  /\ nextId = 1
  /\ stored = <<>>
  /\ saved = NoSaved
  /\ pending = <<>>
  /\ lastReq = NoRequest
  /\ confirmedFor = <<>>
  /\ event = NoEvent
  /\ detections = <<>>

Init ==
  /\ text \in Texts
  /\ pc = "scan"
  /\ ruleIdx = 1
  /\ lastIndex = 0
  /\ counters = <<>>
  /\ items = <<>>
  /\ usedRanges = <<>>
  /\ acceptedBy = <<>>
  /\ candidates = <<>>
  /\ result = NoResult
  /\ modalItems = <<>>
  /\ processed = <<>>
  /\ mapping = <<>>
  /\ callNo = 1
  /\ NoCall
  /\ NoView
  /\ NoRoute

(***************************************************************************)
(* detectSensitiveInfo, one step per evaluation of regex.exec              *)
(***************************************************************************)
NewItem(pattern, start, end, matched, replacement) ==
  [id |-> ItemId(pattern.type, start, end),
   type |-> pattern.type,
   label |-> pattern.label,
   original |-> matched,
   replacement |-> replacement,
   startIndex |-> start,
   endIndex |-> end,
   ignored |-> FALSE]

Skips_OnlyWhenBoth(overlapping, type, matched) ==
  overlapping /\ ~PassesValidator(type, matched)

\* the continue statements of the loop body: the candidate is dropped when it
\* overlaps a used range or fails the validator of its type
Skips(overlapping, type, matched) ==
  overlapping \/ ~PassesValidator(type, matched)

Claim_Nothing(ranges, range) == ranges

\* usedRanges.push(range)
Claim(ranges, range) == Append(ranges, range)

AdvanceTo_Start(match) == match[1]

\* regex.lastIndex after exec returned match
AdvanceTo(match) == match[2]

\* exec returned a match: one pass through the body of the while loop
ScanMatch ==
  /\ pc = "scan"
  /\ ruleIdx <= Len(DETECTION_PATTERNS)
  /\ LET pattern == DETECTION_PATTERNS[ruleIdx]
         match == exec(pattern.pattern, text, lastIndex)
     IN  /\ match # <<>>
         /\ lastIndex' = AdvanceTo(match)
         /\ LET start == match[1]
                end == match[2]
                matched == SubSeq(text, start + 1, end)
                overlapping == \E i \in DOMAIN usedRanges :
                                  rangesOverlap(match, usedRanges[i])
            IN  IF Skips(overlapping, pattern.type, matched)
                  THEN /\ candidates' = Append(candidates,
                                          [rule |-> ruleIdx, range |-> match, emitted |-> FALSE])
                       /\ UNCHANGED <<counters, items, usedRanges, acceptedBy>>
                  ELSE /\ counters' = Bump(counters, pattern.prefix)
                       /\ items' = Append(items,
                                     NewItem(pattern, start, end, matched,
                                             getPlaceholder(counters, pattern.prefix)))
                       /\ usedRanges' = Claim(usedRanges, match)
                       /\ acceptedBy' = Append(acceptedBy, ruleIdx)
                       /\ candidates' = Append(candidates,
                                          [rule |-> ruleIdx, range |-> match, emitted |-> TRUE])
  /\ UNCHANGED <<text, pc, ruleIdx, result, modalItems, processed, mapping>>
  /\ UNCHANGED <<callNo, callVars, uiVars, routeVars>>

\* exec returned null: the while loop ends and the for loop takes the next rule
ScanNextRule ==
  /\ pc = "scan"
  /\ ruleIdx <= Len(DETECTION_PATTERNS)
  /\ exec(DETECTION_PATTERNS[ruleIdx].pattern, text, lastIndex) = <<>>
  /\ ruleIdx' = ruleIdx + 1
  /\ lastIndex' = 0
  /\ UNCHANGED <<text, pc, counters, items, usedRanges, acceptedBy, candidates, result,
                 modalItems, processed, mapping>>
  /\ UNCHANGED <<callNo, callVars, uiVars, routeVars>>

DetectResult_MoreThanOne(t, sorted) ==
  [hasSensitiveInfo |-> Len(sorted) > 1,
   items |-> sorted,
   anonymizedText |-> applyReplacements(t, sorted)]

\* the GuardrailResult of the return statement
DetectResult(t, sorted) ==
  [hasSensitiveInfo |-> Len(sorted) > 0,
   items |-> sorted,
   anonymizedText |-> applyReplacements(t, sorted)]

\* the sort and the return; the calling view opens the modal on the returned
\* items when hasSensitiveInfo
DetectReturn ==
  /\ pc = "scan"
  /\ ruleIdx > Len(DETECTION_PATTERNS)
  /\ LET sorted == sortAscending(items)
     IN  /\ items' = sorted
         /\ result' = DetectResult(text, sorted)
         /\ pc' = IF Len(sorted) > 0 THEN "modal" ELSE "clean"
         /\ modalItems' = sorted
  /\ UNCHANGED <<text, ruleIdx, lastIndex, counters, usedRanges, acceptedBy,
                 candidates, processed, mapping>>
  /\ UNCHANGED <<callNo, callVars, uiVars, routeVars>>

(***************************************************************************)
(* detectSensitiveInfo as one synchronous call, as the views make it       *)
(***************************************************************************)
\* the inner loop of the scan: rule i from lastIndex li on; st holds counters,
\* items and usedRanges of the call
RECURSIVE ScanFrom(_, _, _, _)
ScanFrom(t, i, li, st) ==
  LET pattern == DETECTION_PATTERNS[i]
      match == exec(pattern.pattern, t, li)
  IN  IF match = <<>> THEN st
      ELSE LET matched == SubSeq(t, match[1] + 1, match[2])
               overlapping == \E k \in DOMAIN st.usedRanges :
                                 rangesOverlap(match, st.usedRanges[k])
           IN  IF Skips(overlapping, pattern.type, matched)
                 THEN ScanFrom(t, i, AdvanceTo(match), st)
                 ELSE ScanFrom(t, i, AdvanceTo(match),
                        [counters |-> Bump(st.counters, pattern.prefix),
                         items |-> Append(st.items,
                                     NewItem(pattern, match[1], match[2], matched,
                                             getPlaceholder(st.counters, pattern.prefix))),
                         usedRanges |-> Claim(st.usedRanges, match)])

\* the outer loop of the scan: the rules a..b in registry order, each from
\* lastIndex 0; the rules a..mid are done before the rules after them start
RECURSIVE ScanRules(_, _, _, _)
ScanRules(t, a, b, st) ==
  IF a > b THEN st
  ELSE IF a = b THEN ScanFrom(t, a, 0, st)
  ELSE LET mid == (a + b) \div 2
           first == ScanRules(t, a, mid, st)
       IN  IF first = st THEN ScanRules(t, mid + 1, b, st)
           ELSE ScanRules(t, mid + 1, b, first)

detectSensitiveInfo(t) ==
  DetectResult(t, sortAscending(
    ScanRules(t, 1, Len(DETECTION_PATTERNS),
              [counters |-> <<>>, items |-> <<>>, usedRanges |-> <<>>]).items))

(***************************************************************************)
(* GuardrailModal                                                          *)
(***************************************************************************)
toggleItem(id) ==
  /\ pc = "modal"
  /\ modalItems' = [i \in DOMAIN modalItems |->
                      IF modalItems[i].id = id
                        THEN [modalItems[i] EXCEPT !.ignored = ~modalItems[i].ignored]
                        ELSE modalItems[i]]
  /\ UNCHANGED <<text, pc, ruleIdx, lastIndex, counters, items, usedRanges,
                 acceptedBy, candidates, result, processed, mapping>>
  /\ UNCHANGED <<callNo, callVars, uiVars, routeVars>>

ToggleSomeItem == \E i \in DOMAIN modalItems : toggleItem(modalItems[i].id)

handleReplaceAllAndSend ==
  /\ pc = "modal"
  /\ processed' = applyReplacements(text, modalItems)
  /\ mapping' = buildReplacementMapping(modalItems)
  /\ pc' = "confirmed"
  /\ UNCHANGED <<text, ruleIdx, lastIndex, counters, items, usedRanges,
                 acceptedBy, candidates, result, modalItems>>
  /\ UNCHANGED <<callNo, callVars, uiVars, routeVars>>

handleSendWithoutChanges ==
  /\ pc = "modal"
  /\ processed' = text
  /\ mapping' = <<>>
  /\ pc' = "raw"
  /\ UNCHANGED <<text, ruleIdx, lastIndex, counters, items, usedRanges,
                 acceptedBy, candidates, result, modalItems>>
  /\ UNCHANGED <<callNo, callVars, uiVars, routeVars>>

MaxCalls == 2

CountersAtEntry_Shared(previous) == previous

\* const counters = {}: the counters a call starts with, whatever the call
\* before it left
CountersAtEntry(previous) == <<>>

\* the view calls detectSensitiveInfo for its next request, a text of one word:
\* new counters, items and usedRanges, and a new RegExp per rule, whose
\* lastIndex is 0
DetectNextCall ==
  /\ pc \in {"clean", "confirmed", "raw"}
  /\ callNo < MaxCalls
  /\ callNo' = callNo + 1
  /\ \E t \in Words : text' = t
  /\ pc' = "scan"
  /\ ruleIdx' = 1
  /\ lastIndex' = 0
  /\ counters' = CountersAtEntry(counters)
  /\ items' = <<>>
  /\ usedRanges' = <<>>
  /\ acceptedBy' = <<>>
  /\ candidates' = <<>>
  /\ result' = NoResult
  /\ modalItems' = <<>>
  /\ processed' = <<>>
  /\ mapping' = <<>>
  /\ UNCHANGED <<callVars, uiVars, routeVars>>

Next ==
  \/ ScanMatch
  \/ ScanNextRule
  \/ DetectReturn
  \/ ToggleSomeItem
  \/ handleReplaceAllAndSend
  \/ handleSendWithoutChanges
  \/ DetectNextCall

Spec == Init /\ [][Next]_vars

(***************************************************************************)
(* Direct calls of the exported functions, on inputs from bounded sets     *)
(***************************************************************************)
MaxTokens == 2

MaxEntries == 2

MaxLen == 4

MaxItems == 3

EMAIL_1 == Placeholder(<<"E", "M", "A", "I", "L">>, 1)

PASSWORD_1 == Placeholder(<<"P", "A", "S", "S", "W", "O", "R", "D">>, 1)

SSN_1 == Placeholder(<<"S", "S", "N">>, 1)

CallPlaceholders == {EMAIL_1, PASSWORD_1, SSN_1}

\* the pieces of the texts handed to restoreOriginals and hasMappablePlaceholders
CallTokens ==
  CallPlaceholders \cup {<<"A", "I", "L", "_", "1", "]">>, <<"x">>}

RECURSIVE Concat(_)
Concat(ws) == IF ws = <<>> THEN <<>> ELSE Head(ws) \o Concat(Tail(ws))

CallTexts == {Concat(ws) : ws \in UNION {[1..n -> CallTokens] : n \in 0..MaxTokens}}

Entry(k, v) == [k |-> k, v |-> v]

\* placeholder -> original pairs: originals the rule of the prefix can match
CallEntries ==
  {Entry(EMAIL_1, <<"a", "@", "b", ".", "c", "o">>),
   Entry(SSN_1, <<"1", "2", "3", "-", "4", "5", "-", "6", "7", "8", "9">>),
   Entry(PASSWORD_1, <<"p", "w", "d", "=", "x">>),
   Entry(PASSWORD_1, <<"p", "w", "d", "=", "$", "$">>),
   Entry(PASSWORD_1, <<"p", "w", "d", "=", "$", "&">>),
   Entry(PASSWORD_1, <<"p", "w", "d", "=", "$", "'">>),
   Entry(PASSWORD_1, <<"p", "w", "d", "=", "[", "E", "M">>)}

\* mappings of at most MaxEntries entries, each key once, in every key order
CallMappings ==
  {m \in UNION {[1..n -> CallEntries] : n \in 0..MaxEntries} :
     \A i, j \in DOMAIN m : m[i].k = m[j].k => i = j}

\* the first n characters of abcdefgh
CallBase == <<"a", "b", "c", "d", "e", "f", "g", "h">>

ApplyTexts == {SubSeq(CallBase, 1, n) : n \in 0..MaxLen}

\* non-empty ranges inside t
ApplyRanges(t) == {r \in (0..Len(t)) \X (0..Len(t)) : r[1] < r[2]}

\* at most MaxItems pairwise non-overlapping ranges, in every list order
ApplyRangeLists(t) ==
  {rs \in UNION {[1..n -> ApplyRanges(t)] : n \in 0..MaxItems} :
     \A i, j \in DOMAIN rs :
       i # j => (rs[i][2] <= rs[j][1] \/ rs[j][2] <= rs[i][1])}

\* placeholder and ignored flag of an item
ApplyAttributes == {EMAIL_1, SSN_1} \X BOOLEAN

\* a well-formed item over t: the original is the substring the range covers
ApplyItem(t, range, attr) ==
  [id |-> ItemId("email", range[1], range[2]),
   type |-> "email",
   label |-> "Email Address",
   original |-> SubSeq(t, range[1] + 1, range[2]),
   replacement |-> attr[1],
   startIndex |-> range[1],
   endIndex |-> range[2],
   ignored |-> attr[2]]

\* the scan and the modal are not running while a function is called directly
Idle ==
  /\ text = <<>>
  /\ pc = "idle"
  /\ ruleIdx = 1
  /\ lastIndex = 0
  /\ counters = <<>>
  /\ items = <<>>
  /\ usedRanges = <<>>
  /\ acceptedBy = <<>>
  /\ candidates = <<>>
  /\ result = NoResult
  /\ modalItems = <<>>
  /\ processed = <<>>
  /\ mapping = <<>>
  /\ callNo = 0

CallInit == Idle /\ NoCall /\ NoView /\ NoRoute

CallApplyReplacements ==
  /\ op = "none"
  /\ \E t \in ApplyTexts :
       \E rs \in ApplyRangeLists(t) :
         \E attrs \in [DOMAIN rs -> ApplyAttributes] :
           LET its == [i \in DOMAIN rs |-> ApplyItem(t, rs[i], attrs[i])]
           IN  /\ argText' = t
               /\ argItems' = its
               /\ out' = applyReplacements(t, its)
  /\ op' = "applyReplacements"
  /\ UNCHANGED <<argMapping, scanVars, uiVars, routeVars>>

CallRestoreOriginals ==
  /\ op = "none"
  /\ \E t \in CallTexts, m \in CallMappings :
       /\ argText' = t
       /\ argMapping' = m
       /\ out' = restoreOriginals(t, m)
  /\ op' = "restoreOriginals"
  /\ UNCHANGED <<argItems, scanVars, uiVars, routeVars>>

CallHasMappablePlaceholders ==
  /\ op = "none"
  /\ \E t \in CallTexts, m \in CallMappings :
       /\ argText' = t
       /\ argMapping' = m
       /\ out' = hasMappablePlaceholders(t, m)
  /\ op' = "hasMappablePlaceholders"
  /\ UNCHANGED <<argItems, scanVars, uiVars, routeVars>>

CallBuildReplacementMapping ==
  /\ op = "none"
  /\ \E t \in ApplyTexts :
       \E rs \in ApplyRangeLists(t) :
         \E attrs \in [DOMAIN rs -> ApplyAttributes] :
           LET its == [i \in DOMAIN rs |-> ApplyItem(t, rs[i], attrs[i])]
           IN  /\ argText' = t
               /\ argItems' = its
               /\ out' = buildReplacementMapping(its)
  /\ op' = "buildReplacementMapping"
  /\ UNCHANGED <<argMapping, scanVars, uiVars, routeVars>>

\* the empty text, a text no rule matches, texts with one candidate that is
\* kept, and a text whose only candidate, 17 digits after +, fails the phone
\* validator
DetectTexts ==
  {<<>>,
   <<"x">>,
   <<"a", "@", "b", ".", "c", "o">>,
   <<"+", "1", "2", "3", "4", "5", "6", "7", "8", "9", "0", "1">>,
   <<"+", "1", "2", "3", "4", "5", "6", "7", "8", "9", "0", "1", "2", "3", "4", "5",
     "6", "7">>}

CallDetectSensitiveInfo ==
  /\ op = "none"
  /\ \E t \in DetectTexts :
       /\ argText' = t
       /\ out' = detectSensitiveInfo(t)
  /\ op' = "detectSensitiveInfo"
  /\ UNCHANGED <<argItems, argMapping, scanVars, uiVars, routeVars>>

CallNext ==
  \/ CallApplyReplacements
  \/ CallRestoreOriginals
  \/ CallHasMappablePlaceholders
  \/ CallBuildReplacementMapping
  \/ CallDetectSensitiveInfo

CallSpec == CallInit /\ [][CallNext]_vars

(***************************************************************************)
(* The views.  EmailView, TranslationView and SummarizeView hold one       *)
(* result and use useReplacementDisplay; ChatView holds a conversation.    *)
(***************************************************************************)
MaxMessages == 4

MaxConversations == 2

Views == {"email", "translation", "summarize"}

\* the texts the user types
UiTexts ==
  {<<"a", "@", "b", ".", "c", "o">>,
   <<"c", "@", "d", ".", "c", "o", " ", "1", "2", "3", "-", "4", "5", "-", "6", "7", "8", "9">>,
   <<"x">>}

\* 'Failed to generate email.', 'Translation failed.', 'Failed to generate summary.'
FAILED_TEXT == <<"F", "a", "i", "l", "e", "d", ".">>

\* 'An error occurred. Please try again.'
ERROR_TEXT == <<"E", "r", "r", "o", "r", ".">>

\* !text.trim()
IsBlank(t) == \A i \in DOMAIN t : t[i] \in Space

\* { ...old, ...new }
Spread(old, new) ==
  LET RECURSIVE SpreadFrom(_, _)
      SpreadFrom(acc, i) ==
        IF i > Len(new) THEN acc
        ELSE SpreadFrom(SetKey(acc, new[i].k, new[i].v), i + 1)
  IN  SpreadFrom(old, 1)

\* the field of the view that getInputText reads
InputText == IF surface = "email" /\ mode = "polish" THEN polishInput ELSE input

Event(name) == [op |-> name, M |-> <<>>, m |-> <<>>, id |-> 0]

\* history: the text a request must carry for source, after a Replace & Send
\* of the same input
Expected(source) ==
  IF confirmedFor # <<>> /\ confirmedFor[1].input = source
    THEN <<confirmedFor[1].processed>> ELSE <<>>

chatVars == <<conversations, currentId, revealedMessageIds, nextId, saved, pending>>

(***************************************************************************)
(* useReplacementDisplay                                                   *)
(***************************************************************************)
getDisplayContent_AlwaysRestored(content, rm, rev) ==
  IF hasMappablePlaceholders(content, rm) THEN restoreOriginals(content, rm) ELSE content

getDisplayContent(content, rm, rev) ==
  IF hasMappablePlaceholders(content, rm) /\ rev
    THEN restoreOriginals(content, rm) ELSE content

\* callAPI of a view: the request leaves, the previous result is blanked
callAPI(body, source) ==
  /\ isLoading' = TRUE
  /\ output' = <<>>
  /\ inflight' = <<body>>
  /\ lastReq' = [body |-> body, expected |-> Expected(source)]

\* the user types into the input field of the view
SetInput ==
  /\ surface \in Views \cup {"chat"}
  /\ guardrailData = <<>>
  /\ \E t \in UiTexts :
       IF surface = "email" /\ mode = "polish"
         THEN polishInput' = t /\ UNCHANGED input
         ELSE input' = t /\ UNCHANGED polishInput
  /\ event' = Event("setInput")
  /\ UNCHANGED <<surface, mode, guardrailData, replacementMapping, revealed, output,
                 isLoading, inflight, stored, lastReq, confirmedFor>>
  /\ UNCHANGED <<chatVars, scanVars, callVars, detections, routeVars>>

\* detectSensitiveInfo(t) as a handler calls it
Detection(t) == IF t \in DOMAIN detections THEN detections[t] ELSE detectSensitiveInfo(t)

\* handleAction of EmailView, handleTranslate, handleSummarize
ViewHandleAction ==
  /\ surface \in Views
  /\ guardrailData = <<>>
  /\ ~isLoading
  /\ ~IsBlank(InputText)
  /\ LET detection == Detection(InputText)
     IN  IF detection.hasSensitiveInfo
           THEN /\ guardrailData' = <<[text |-> InputText, items |-> detection.items]>>
                /\ event' = Event("detect")
                /\ UNCHANGED <<output, isLoading, inflight, lastReq>>
           ELSE /\ callAPI(InputText, InputText)
                /\ event' = Event("request")
                /\ UNCHANGED guardrailData
  /\ UNCHANGED <<surface, input, polishInput, mode, replacementMapping, revealed,
                 stored, confirmedFor>>
  /\ UNCHANGED <<chatVars, scanVars, callVars, detections, routeVars>>

\* toggleItem of the GuardrailModal that is shown
ModalToggleItem ==
  /\ guardrailData # <<>>
  /\ \E i \in DOMAIN guardrailData[1].items :
       guardrailData' =
         <<[guardrailData[1] EXCEPT
              !.items = [j \in DOMAIN guardrailData[1].items |->
                           IF guardrailData[1].items[j].id = guardrailData[1].items[i].id
                             THEN [guardrailData[1].items[j] EXCEPT
                                     !.ignored = ~guardrailData[1].items[j].ignored]
                             ELSE guardrailData[1].items[j]]]>>
  /\ event' = Event("toggleItem")
  /\ UNCHANGED <<surface, input, polishInput, mode, replacementMapping, revealed,
                 output, isLoading, inflight, stored, lastReq, confirmedFor>>
  /\ UNCHANGED <<chatVars, scanVars, callVars, detections, routeVars>>

onCancel_Kept(data) == data

\* onCancel of the views: setGuardrailData(null)
onCancel(data) == <<>>

\* the Cancel button and the close button of the GuardrailModal
ModalCancel ==
  /\ guardrailData # <<>>
  /\ guardrailData' = onCancel(guardrailData)
  /\ event' = Event("cancel")
  /\ UNCHANGED <<surface, input, polishInput, mode, replacementMapping, revealed,
                 output, isLoading, inflight, stored, lastReq, confirmedFor>>
  /\ UNCHANGED <<chatVars, scanVars, callVars, detections, routeVars>>

\* applyGuardrailMapping of useReplacementDisplay
applyGuardrailMapping(rm) ==
  /\ replacementMapping' = rm
  /\ revealed' = FALSE

\* handleGuardrailConfirm of EmailView, TranslationView and SummarizeView
ViewGuardrailConfirm(processedText, rm) ==
  /\ guardrailData' = <<>>
  /\ applyGuardrailMapping(rm)
  /\ isLoading' = TRUE
  /\ output' = <<>>
  /\ inflight' = <<processedText>>
  /\ UNCHANGED <<surface, input, polishInput, mode, stored>>
  /\ UNCHANGED <<chatVars, scanVars, callVars, detections, routeVars>>

\* handleReplaceAllAndSend of the modal, then the view's handleGuardrailConfirm
ViewReplaceAllAndSend ==
  /\ surface \in Views
  /\ guardrailData # <<>>
  /\ LET originalText == guardrailData[1].text
         processedText == applyReplacements(originalText, guardrailData[1].items)
         rm == buildReplacementMapping(guardrailData[1].items)
     IN  /\ ViewGuardrailConfirm(processedText, rm)
         /\ confirmedFor' = <<[input |-> originalText, processed |-> processedText]>>
         /\ lastReq' = [body |-> processedText, expected |-> <<processedText>>]
         /\ event' = [op |-> "replace", M |-> replacementMapping, m |-> rm, id |-> 0]

\* handleSendWithoutChanges of the modal, then the view's handleGuardrailConfirm
ViewSendWithoutChanges ==
  /\ surface \in Views
  /\ guardrailData # <<>>
  /\ ViewGuardrailConfirm(guardrailData[1].text, <<>>)
  /\ confirmedFor' = <<>>
  /\ lastReq' = [body |-> guardrailData[1].text, expected |-> <<>>]
  /\ event' = Event("raw")

\* the fetch of callAPI settles: data.result || the fallback, or the catch
ViewResponse ==
  /\ surface \in Views
  /\ inflight # <<>>
  /\ \E outcome \in {"echo", "empty", "throw"} :
       output' = CASE outcome = "echo" ->
                        IF inflight[1] # <<>> THEN inflight[1] ELSE FAILED_TEXT
                   [] outcome = "empty" -> FAILED_TEXT
                   [] outcome = "throw" -> ERROR_TEXT
  /\ isLoading' = FALSE
  /\ inflight' = <<>>
  /\ event' = Event("response")
  /\ UNCHANGED <<surface, input, polishInput, mode, guardrailData, replacementMapping,
                 revealed, stored, lastReq, confirmedFor>>
  /\ UNCHANGED <<chatVars, scanVars, callVars, detections, routeVars>>

\* toggleRevealed, by the MapBackButton, which is rendered with a result that
\* has mappable placeholders
toggleRevealed ==
  /\ surface \in Views
  /\ guardrailData = <<>>
  /\ ~isLoading
  /\ output # <<>>
  /\ hasMappablePlaceholders(output, replacementMapping)
  /\ revealed' = ~revealed
  /\ event' = Event("toggleRevealed")
  /\ UNCHANGED <<surface, input, polishInput, mode, guardrailData, replacementMapping,
                 output, isLoading, inflight, stored, lastReq, confirmedFor>>
  /\ UNCHANGED <<chatVars, scanVars, callVars, detections, routeVars>>

\* reset of useReplacementDisplay
reset ==
  /\ replacementMapping' = <<>>
  /\ revealed' = FALSE

\* the mode toggle of EmailView
EmailSetMode ==
  /\ surface = "email"
  /\ guardrailData = <<>>
  /\ \E m \in {"write", "polish"} : mode' = m
  /\ output' = <<>>
  /\ reset
  /\ event' = Event("setMode")
  /\ UNCHANGED <<surface, input, polishInput, guardrailData, isLoading, inflight,
                 stored, lastReq, confirmedFor>>
  /\ UNCHANGED <<chatVars, scanVars, callVars, detections, routeVars>>

\* the input method toggle of SummarizeView
SummarizeSetInputMethod ==
  /\ surface = "summarize"
  /\ guardrailData = <<>>
  /\ \E id \in {"paste", "upload"} : mode' = id
  /\ input' = <<>>
  /\ output' = <<>>
  /\ reset
  /\ event' = Event("setInputMethod")
  /\ UNCHANGED <<surface, polishInput, guardrailData, isLoading, inflight, stored,
                 lastReq, confirmedFor>>
  /\ UNCHANGED <<chatVars, scanVars, callVars, detections, routeVars>>

\* handleRegenerate of SummarizeView; the button is rendered with a summary
SummarizeRegenerate ==
  /\ surface = "summarize"
  /\ guardrailData = <<>>
  /\ output # <<>>
  /\ ~isLoading
  /\ ~IsBlank(input)
  /\ callAPI(input, input)
  /\ event' = Event("regenerate")
  /\ UNCHANGED <<surface, input, polishInput, mode, guardrailData, replacementMapping,
                 revealed, stored, confirmedFor>>
  /\ UNCHANGED <<chatVars, scanVars, callVars, detections, routeVars>>

\* the source language selector of TranslationView
TranslationSetSourceLang ==
  /\ surface = "translation"
  /\ guardrailData = <<>>
  /\ \E l \in {"auto", "fixed"} : mode' = l
  /\ event' = Event("setSourceLang")
  /\ UNCHANGED <<surface, input, polishInput, guardrailData, replacementMapping,
                 revealed, output, isLoading, inflight, stored, lastReq, confirmedFor>>
  /\ UNCHANGED <<chatVars, scanVars, callVars, detections, routeVars>>

\* handleSwap of TranslationView
TranslationHandleSwap ==
  /\ surface = "translation"
  /\ guardrailData = <<>>
  /\ mode # "auto"
  /\ IF output # <<>>
       THEN input' = output /\ output' = <<>>
       ELSE UNCHANGED <<input, output>>
  /\ event' = Event("swap")
  /\ UNCHANGED <<surface, polishInput, mode, guardrailData, replacementMapping,
                 revealed, isLoading, inflight, stored, lastReq, confirmedFor>>
  /\ UNCHANGED <<chatVars, scanVars, callVars, detections, routeVars>>

ViewNext ==
  \/ ViewHandleAction
  \/ ViewReplaceAllAndSend
  \/ ViewSendWithoutChanges
  \/ ViewResponse
  \/ toggleRevealed
  \/ EmailSetMode
  \/ SummarizeSetInputMethod
  \/ SummarizeRegenerate
  \/ TranslationSetSourceLang
  \/ TranslationHandleSwap

(***************************************************************************)
(* ConversationProvider and ChatView                                       *)
(***************************************************************************)
HasConversation(convs, id) == \E i \in DOMAIN convs : convs[i].id = id

Conversation(convs, id) == convs[CHOOSE i \in DOMAIN convs : convs[i].id = id]

\* currentConversation?.messages ?? []
CurrentMessages ==
  IF HasConversation(conversations, currentId)
    THEN Conversation(conversations, currentId).messages ELSE <<>>

\* currentConversation?.replacementMappings ?? {}
CurrentMappings ==
  IF HasConversation(conversations, currentId)
    THEN Conversation(conversations, currentId).replacementMappings ELSE <<>>

TotalMessages ==
  LET RECURSIVE Count(_)
      Count(i) == IF i > Len(conversations) THEN 0
                  ELSE Len(conversations[i].messages) + Count(i + 1)
  IN  Count(1)

\* a Message; expected and asOf are history: the text a Replace & Send fixed
\* for a user message, and for an assistant message the originals that the
\* placeholders of its turn stood for
Message(id, role, content, originalContent, isError, expected, asOf) ==
  [id |-> id, role |-> role, content |-> content, originalContent |-> originalContent,
   isError |-> isError, expected |-> expected, asOf |-> asOf]

\* persist: conversations without messages are not saved, and the saved current
\* id is the id of a saved conversation, else the first of them, else null
persist(convs, id) ==
  LET toSave == SelectSeq(convs, LAMBDA c : Len(c.messages) > 0)
      validId == IF id # 0 /\ HasConversation(toSave, id) THEN id
                 ELSE IF toSave # <<>> THEN toSave[1].id
                 ELSE 0
  IN  [conversations |-> toSave, currentId |-> validId]

addMessage_NewEmpty(convs, cid, message, newId) ==
  [convs |-> IF cid = 0
               THEN <<[id |-> newId, messages |-> <<>>, replacementMappings |-> <<>>,
                       intended |-> <<>>]>> \o convs
               ELSE [i \in DOMAIN convs |->
                       IF convs[i].id # cid THEN convs[i]
                       ELSE [convs[i] EXCEPT !.messages = Append(@, message)]],
   cid |-> IF cid = 0 THEN newId ELSE cid]

\* the updater of addMessage: with no current conversation it creates one, with
\* the id newId, and makes it current; the value is the list and the current id.
\* intended is history: the mappings confirmed in the conversation, merged
addMessage(convs, cid, message, newId) ==
  LET list == IF cid = 0
                THEN <<[id |-> newId, messages |-> <<>>, replacementMappings |-> <<>>,
                        intended |-> <<>>]>> \o convs
                ELSE convs
      targetId == IF cid = 0 THEN newId ELSE cid
  IN  [convs |-> [i \in DOMAIN list |->
                    IF list[i].id # targetId THEN list[i]
                    ELSE [list[i] EXCEPT !.messages = Append(@, message)]],
       cid |-> targetId]

\* updateReplacementMapping with cid read from currentIdRef
updateReplacementMapping(convs, cid, rm) ==
  IF cid = 0 THEN convs
  ELSE [i \in DOMAIN convs |->
          IF convs[i].id # cid THEN convs[i]
          ELSE [convs[i] EXCEPT !.replacementMappings = Spread(@, rm)]]

\* the updater of selectConversation, cid read from currentIdRef: a current
\* conversation without messages is dropped when another is selected
selectConversation(convs, cid, id) ==
  LET leavingEmpty == /\ HasConversation(convs, cid)
                      /\ Len(Conversation(convs, cid).messages) = 0
                      /\ id # cid
      next == IF leavingEmpty THEN SelectSeq(convs, LAMBDA c : c.id # cid) ELSE convs
      nextId_ == IF HasConversation(next, id) THEN id
                 ELSE IF next # <<>> THEN next[1].id
                 ELSE 0
  IN  [convs |-> next, cid |-> nextId_]

\* the updater of deleteConversation, cid read from currentIdRef
deleteConversation(convs, cid, id) ==
  LET next == SelectSeq(convs, LAMBDA c : c.id # id)
      nextId_ == IF cid = id THEN (IF next # <<>> THEN next[1].id ELSE 0) ELSE cid
  IN  [convs |-> next, cid |-> nextId_]

\* history: the mapping confirmed with a message joins those of its conversation
Intend(convs, cid, rm) ==
  [i \in DOMAIN convs |->
     IF convs[i].id # cid THEN convs[i]
     ELSE [convs[i] EXCEPT !.intended = Spread(@, rm)]]

\* messageHasMappablePlaceholders
messageHasMappablePlaceholders(msg, rm) ==
  msg.role = "assistant" /\ hasMappablePlaceholders(msg.content, rm)

\* getDisplayContent of ChatView
ChatDisplayContent(msg, rm, ids) ==
  IF msg.role = "user"
    THEN IF msg.originalContent # <<>> /\ msg.originalContent[1] # <<>>
           THEN msg.originalContent[1] ELSE msg.content
  ELSE IF messageHasMappablePlaceholders(msg, rm) /\ msg.id \in ids /\ Len(rm) > 0
    THEN restoreOriginals(msg.content, rm)
  ELSE msg.content

\* sendToAPI up to the fetch.  addMessage queues its updater with
\* setConversations, and the updater is what sets currentIdRef for a new
\* conversation; updateReplacementMapping reads currentIdRef right after.  The
\* updater has run by then (eager) or runs with the next render.
sendToAPI(anonymizedText, rm, originalText, expected, eager) ==
  IF IsBlank(anonymizedText)
    THEN UNCHANGED <<input, isLoading, inflight, lastReq, chatVars>>
    ELSE
      LET userMessage == Message(nextId, "user", anonymizedText,
                                 IF Len(rm) > 0 THEN <<originalText>> ELSE <<>>,
                                 FALSE, expected, <<>>)
          added == addMessage(conversations, currentId, userMessage, nextId + 1)
          cidRead == IF currentId = 0 /\ ~eager THEN 0 ELSE added.cid
          updated == IF Len(rm) > 0
                       THEN updateReplacementMapping(added.convs, cidRead, rm)
                       ELSE added.convs
          noted == Intend(updated, added.cid, rm)
          history == [i \in DOMAIN CurrentMessages |->
                        [role |-> CurrentMessages[i].role,
                         content |-> CurrentMessages[i].content,
                         expected |-> CurrentMessages[i].expected]]
                     \o <<[role |-> "user", content |-> anonymizedText,
                           expected |-> expected]>>
      IN  /\ conversations' = noted
          /\ currentId' = added.cid
          /\ nextId' = IF currentId = 0 THEN nextId + 2 ELSE nextId + 1
          /\ input' = <<>>
          /\ isLoading' = TRUE
          /\ inflight' = <<[history |-> history,
                            asOf |-> Conversation(noted, added.cid).intended]>>
          /\ lastReq' = [body |-> anonymizedText, expected |-> expected]
          /\ saved' = IF Len(rm) > 0 /\ cidRead # 0
                         THEN [persist(added.convs, added.cid)
                                 EXCEPT !.conversations = updated]
                         ELSE persist(added.convs, added.cid)
          /\ UNCHANGED <<revealedMessageIds, pending>>

\* room for the message and its answer
CanSend == TotalMessages + 2 <= MaxMessages

\* handleSend
ChatHandleSend ==
  /\ surface = "chat"
  /\ guardrailData = <<>>
  /\ ~IsBlank(input)
  /\ ~isLoading
  /\ CanSend
  /\ LET detection == Detection(input)
     IN  IF detection.hasSensitiveInfo
           THEN /\ guardrailData' = <<[text |-> input, items |-> detection.items]>>
                /\ event' = Event("detect")
                /\ UNCHANGED <<input, isLoading, inflight, lastReq, chatVars>>
           ELSE /\ \E eager \in BOOLEAN : sendToAPI(input, <<>>, input, <<>>, eager)
                /\ event' = Event("request")
                /\ UNCHANGED guardrailData
  /\ UNCHANGED <<surface, polishInput, mode, replacementMapping, revealed, output,
                 stored, confirmedFor>>
  /\ UNCHANGED <<scanVars, callVars, detections, routeVars>>

\* handleReplaceAllAndSend of the modal, then handleGuardrailConfirm of ChatView
ChatReplaceAllAndSend ==
  /\ surface = "chat"
  /\ guardrailData # <<>>
  /\ LET originalText == guardrailData[1].text
         processedText == applyReplacements(originalText, guardrailData[1].items)
         rm == buildReplacementMapping(guardrailData[1].items)
     IN  /\ \E eager \in BOOLEAN :
              sendToAPI(processedText, rm, originalText, <<processedText>>, eager)
         /\ confirmedFor' = <<[input |-> originalText, processed |-> processedText]>>
         /\ event' = [op |-> "replace", M |-> CurrentMappings, m |-> rm, id |-> 0]
  /\ guardrailData' = <<>>
  /\ UNCHANGED <<surface, polishInput, mode, replacementMapping, revealed, output, stored>>
  /\ UNCHANGED <<scanVars, callVars, detections, routeVars>>

\* handleSendWithoutChanges of the modal, then handleGuardrailConfirm of ChatView
ChatSendWithoutChanges ==
  /\ surface = "chat"
  /\ guardrailData # <<>>
  /\ \E eager \in BOOLEAN :
       sendToAPI(guardrailData[1].text, <<>>, guardrailData[1].text, <<>>, eager)
  /\ confirmedFor' = <<>>
  /\ event' = Event("raw")
  /\ guardrailData' = <<>>
  /\ UNCHANGED <<surface, polishInput, mode, replacementMapping, revealed, output, stored>>
  /\ UNCHANGED <<scanVars, callVars, detections, routeVars>>

\* the fetch of sendToAPI settles and the answer, or the error message, is added
ChatResponse ==
  /\ surface = "chat"
  /\ inflight # <<>>
  /\ \E outcome \in {"echo", "error"} :
       LET history == inflight[1].history
           answer == IF outcome = "echo"
                       THEN Message(nextId, "assistant", history[Len(history)].content,
                                    <<>>, FALSE, <<>>, inflight[1].asOf)
                       ELSE Message(nextId, "assistant", ERROR_TEXT, <<>>, TRUE, <<>>, <<>>)
           added == addMessage(conversations, currentId, answer, nextId + 1)
       IN  /\ conversations' = added.convs
           /\ currentId' = added.cid
           /\ nextId' = IF currentId = 0 THEN nextId + 2 ELSE nextId + 1
           /\ saved' = persist(added.convs, added.cid)
  /\ isLoading' = FALSE
  /\ inflight' = <<>>
  /\ event' = [op |-> "response", M |-> <<>>, m |-> <<>>, id |-> nextId]
  /\ UNCHANGED <<surface, input, polishInput, mode, guardrailData, replacementMapping,
                 revealed, output, revealedMessageIds, stored, pending, lastReq,
                 confirmedFor>>
  /\ UNCHANGED <<scanVars, callVars, detections, routeVars>>

ToggleIn_Only(ids, id) == IF id \in ids THEN {} ELSE {id}

\* the updater of toggleRevealMapped
ToggleIn(ids, id) == IF id \in ids THEN ids \ {id} ELSE ids \cup {id}

\* toggleRevealMapped, by the MapBackButton of an assistant message that has
\* mappable placeholders
toggleRevealMapped ==
  /\ surface = "chat"
  /\ guardrailData = <<>>
  /\ \E i \in DOMAIN CurrentMessages :
       /\ ~CurrentMessages[i].isError
       /\ messageHasMappablePlaceholders(CurrentMessages[i], CurrentMappings)
       /\ revealedMessageIds' = ToggleIn(revealedMessageIds, CurrentMessages[i].id)
       /\ event' = [op |-> "toggleReveal", M |-> <<>>, m |-> <<>>,
                    id |-> CurrentMessages[i].id]
  /\ UNCHANGED <<surface, input, polishInput, mode, guardrailData, replacementMapping,
                 revealed, output, isLoading, inflight, conversations, currentId,
                 nextId, stored, saved, pending, lastReq, confirmedFor>>
  /\ UNCHANGED <<scanVars, callVars, detections, routeVars>>

\* createNewConversation: the selection is cleared at once; nothing is saved
createNewConversation ==
  /\ surface \in {"chat", "provider"}
  /\ guardrailData = <<>>
  /\ currentId # 0
  /\ Len(conversations) < MaxConversations
  /\ currentId' = 0
  /\ event' = Event("createNewConversation")
  /\ UNCHANGED <<surface, input, polishInput, mode, guardrailData, replacementMapping,
                 revealed, output, isLoading, inflight, conversations,
                 revealedMessageIds, nextId, stored, saved, pending, lastReq,
                 confirmedFor>>
  /\ UNCHANGED <<scanVars, callVars, detections, routeVars>>

\* handleRetry: the input is filled from the user message before the error
ChatHandleRetry ==
  /\ surface = "chat"
  /\ guardrailData = <<>>
  /\ \E e \in DOMAIN CurrentMessages :
       /\ CurrentMessages[e].isError
       /\ \E u \in 1..(e - 1) :
            /\ CurrentMessages[u].role = "user"
            /\ \A j \in (u + 1)..(e - 1) : CurrentMessages[j].role # "user"
            /\ input' = ChatDisplayContent(CurrentMessages[u], <<>>, {})
  /\ event' = Event("retry")
  /\ UNCHANGED <<surface, polishInput, mode, guardrailData, replacementMapping,
                 revealed, output, isLoading, inflight, stored, lastReq, confirmedFor>>
  /\ UNCHANGED <<chatVars, scanVars, callVars, detections, routeVars>>

ChatNext ==
  \/ ChatHandleSend
  \/ ChatReplaceAllAndSend
  \/ ChatSendWithoutChanges
  \/ ChatResponse
  \/ toggleRevealMapped
  \/ createNewConversation
  \/ ChatHandleRetry

(***************************************************************************)
(* ConversationProvider, its operations called in any order.  Each hands   *)
(* an updater to setConversations; React runs it during the call when      *)
(* nothing is queued, or queues it for the next render.                    *)
(***************************************************************************)
MaxIds == 6

MaxPending == 2

\* the mapping handed to updateReplacementMapping
ProviderMapping == <<Entry(EMAIL_1, <<"a", "@", "b", ".", "c", "o">>)>>

Updater(kind, id, message, rm) == [kind |-> kind, id |-> id, message |-> message, rm |-> rm]

\* one updater applied to the provider's state: the list, currentIdRef, what
\* is saved, and the next id of generateId
RunUpdater(u, st) ==
  CASE u.kind = "addMessage" ->
         LET added == addMessage(st.convs, st.cid, u.message[1], st.next)
         IN  [convs |-> added.convs, cid |-> added.cid,
              saved |-> persist(added.convs, added.cid),
              next |-> IF st.cid = 0 THEN st.next + 1 ELSE st.next]
    [] u.kind = "selectConversation" ->
         LET selected == selectConversation(st.convs, st.cid, u.id)
         IN  [convs |-> selected.convs, cid |-> selected.cid,
              saved |-> persist(selected.convs, selected.cid),
              next |-> st.next]
    [] u.kind = "deleteConversation" ->
         LET deleted == deleteConversation(st.convs, st.cid, u.id)
         IN  [convs |-> deleted.convs, cid |-> deleted.cid,
              saved |-> persist(deleted.convs, deleted.cid),
              next |-> st.next]
    [] OTHER ->
         LET updated == updateReplacementMapping(st.convs, u.id, u.rm)
         IN  [convs |-> updated, cid |-> st.cid,
              saved |-> [st.saved EXCEPT !.conversations = updated],
              next |-> st.next]

RECURSIVE RunUpdaters(_, _)
RunUpdaters(us, st) ==
  IF us = <<>> THEN st ELSE RunUpdaters(Tail(us), RunUpdater(Head(us), st))

ProviderState(next) ==
  [convs |-> conversations, cid |-> currentId, saved |-> saved, next |-> next]

\* setConversations(updater), after generateId was called used times
setConversations(u, used) ==
  \E eager \in BOOLEAN :
    IF eager /\ pending = <<>>
      THEN LET st == RunUpdater(u, ProviderState(nextId + used))
           IN  /\ conversations' = st.convs
               /\ currentId' = st.cid
               /\ saved' = st.saved
               /\ nextId' = st.next
               /\ UNCHANGED pending
      ELSE /\ Len(pending) < MaxPending
           /\ pending' = Append(pending, u)
           /\ nextId' = nextId + used
           /\ UNCHANGED <<conversations, currentId, saved>>

\* the messages queued updaters will add
PendingMessages == Len(SelectSeq(pending, LAMBDA u : u.kind = "addMessage"))

ProviderUnchanged ==
  /\ UNCHANGED <<surface, input, polishInput, mode, guardrailData, replacementMapping,
                 revealed, output, isLoading, inflight, revealedMessageIds, stored,
                 lastReq, confirmedFor>>
  /\ UNCHANGED <<scanVars, callVars, detections, routeVars>>

\* addMessage(message)
ProviderAddMessage ==
  /\ surface = "provider"
  /\ TotalMessages + PendingMessages < MaxMessages
  /\ nextId + PendingMessages + 1 <= MaxIds
  /\ setConversations(Updater("addMessage", 0,
                               <<Message(nextId, "user", <<"x">>, <<>>, FALSE, <<>>, <<>>)>>,
                               <<>>), 1)
  /\ event' = Event("addMessage")
  /\ ProviderUnchanged

\* selectConversation(id)
ProviderSelectConversation ==
  /\ surface = "provider"
  /\ \E id \in 1..(nextId - 1) :
       /\ setConversations(Updater("selectConversation", id, <<>>, <<>>), 0)
       /\ event' = [op |-> "selectConversation", M |-> <<>>, m |-> <<>>, id |-> id]
  /\ ProviderUnchanged

\* deleteConversation(id)
ProviderDeleteConversation ==
  /\ surface = "provider"
  /\ \E id \in 1..(nextId - 1) :
       /\ setConversations(Updater("deleteConversation", id, <<>>, <<>>), 0)
       /\ event' = [op |-> "deleteConversation", M |-> <<>>, m |-> <<>>, id |-> id]
  /\ ProviderUnchanged

\* updateReplacementMapping(mapping): currentIdRef is read during the call, and
\* nothing is queued when it is null
ProviderUpdateReplacementMapping ==
  /\ surface = "provider"
  /\ IF currentId = 0
       THEN UNCHANGED <<conversations, currentId, saved, nextId, pending>>
       ELSE setConversations(Updater("updateReplacementMapping", currentId, <<>>,
                                     ProviderMapping), 0)
  /\ event' = [op |-> "updateReplacementMapping", M |-> CurrentMappings,
               m |-> ProviderMapping, id |-> currentId]
  /\ ProviderUnchanged

\* the next render: the queued updaters run, oldest first
ProviderRender ==
  /\ surface = "provider"
  /\ pending # <<>>
  /\ LET st == RunUpdaters(pending, ProviderState(nextId))
     IN  /\ conversations' = st.convs
         /\ currentId' = st.cid
         /\ saved' = st.saved
         /\ nextId' = st.next
  /\ pending' = <<>>
  /\ event' = Event("render")
  /\ ProviderUnchanged

ProviderNext ==
  \/ ProviderAddMessage
  \/ ProviderSelectConversation
  \/ ProviderDeleteConversation
  \/ ProviderUpdateReplacementMapping
  \/ ProviderRender

(***************************************************************************)
(* src/lib/storage: the persisted replacement mappings                     *)
(***************************************************************************)
\* a string inside JSON.stringify: the quote and the backslash are escaped
RECURSIVE Escape(_)
Escape(s) ==
  IF s = <<>> THEN <<>>
  ELSE (IF Head(s) \in {"\"", "\\"} THEN <<"\\", Head(s)>> ELSE <<Head(s)>>)
         \o Escape(Tail(s))

\* a string literal inside JSON.parse
RECURSIVE Unescape(_)
Unescape(s) ==
  IF s = <<>> THEN <<>>
  ELSE IF Head(s) = "\\" /\ Len(s) > 1 THEN <<s[2]>> \o Unescape(Tail(Tail(s)))
  ELSE <<Head(s)>> \o Unescape(Tail(s))

\* JSON.stringify of a ReplacementMapping: the members in key order
stringify(rm) == [i \in DOMAIN rm |-> [k |-> Escape(rm[i].k), v |-> Escape(rm[i].v)]]

\* JSON.parse of it
parse(raw) == [i \in DOMAIN raw |-> [k |-> Unescape(raw[i].k), v |-> Unescape(raw[i].v)]]

\* getReplacementMappings()[conversationId], {} when nothing is stored
getReplacementMappings == parse(stored)

\* the mappings handed to saveReplacementMapping
SavedMappings ==
  {<<Entry(EMAIL_1, <<"a", "@", "b", ".", "c", "o">>)>>,
   <<Entry(EMAIL_1, <<"c", "@", "d", ".", "c", "o">>),
     Entry(SSN_1, <<"1", "2", "3", "-", "4", "5", "-", "6", "7", "8", "9">>)>>,
   <<Entry(PASSWORD_1, <<"p", "w", "d", "=", "\"", "\\">>)>>,
   <<>>}

\* saveReplacementMapping(conversationId, mapping)
saveReplacementMapping(rm) == stored' = stringify(Spread(getReplacementMappings, rm))

StorageSave ==
  /\ surface = "storage"
  /\ \E rm \in SavedMappings :
       /\ saveReplacementMapping(rm)
       /\ event' = [op |-> "save", M |-> getReplacementMappings, m |-> rm, id |-> 0]
  /\ UNCHANGED <<surface, input, polishInput, mode, guardrailData, replacementMapping,
                 revealed, output, isLoading, inflight, lastReq, confirmedFor>>
  /\ UNCHANGED <<chatVars, scanVars, callVars, detections, routeVars>>

(***************************************************************************)
(* The views as one specification: one view, chosen at the start           *)
(***************************************************************************)
UiInit ==
  /\ surface \in Views \cup {"chat", "storage", "provider"}
  /\ mode = CASE surface = "email" -> "write"
              [] surface = "summarize" -> "paste"
              [] surface = "translation" -> "auto"
              [] OTHER -> "none"
  /\ input = <<>>
  /\ polishInput = <<>>
  /\ guardrailData = <<>>
  /\ replacementMapping = <<>>
  /\ revealed = FALSE
  /\ output = <<>>
  /\ isLoading = FALSE
  /\ inflight = <<>>
  /\ conversations = <<>>
  /\ currentId = 0
  /\ revealedMessageIds = {}
  /\ nextId = 1
  /\ stored = <<>>
  /\ saved = NoSaved
  /\ pending = <<>>
  /\ lastReq = NoRequest
  /\ confirmedFor = <<>>
  /\ event = NoEvent
  /\ detections = [t \in UiTexts |-> detectSensitiveInfo(t)]
  /\ Idle
  /\ NoCall
  /\ NoRoute

UiNext ==
  \/ SetInput
  \/ ModalToggleItem
  \/ ModalCancel
  \/ ViewNext
  \/ ChatNext
  \/ ProviderNext
  \/ StorageSave

UiSpec == UiInit /\ [][UiNext]_vars

(***************************************************************************)
(* The chat API route: POST with its retry loop                            *)
(***************************************************************************)
MAX_RETRIES == 3

BASE_DELAY_MS == 5000

\* /rate.?limit|quota/i
RateLimitRe ==
  Alt(<<Cat(<<LitI(<<"r", "a", "t", "e">>), Opt(NotCls({"\n"})),
              LitI(<<"l", "i", "m", "i", "t">>)>>),
        LitI(<<"q", "u", "o", "t", "a">>)>>)

\* /content.?policy|safety|moderation/i
ContentPolicyRe ==
  Alt(<<Cat(<<LitI(<<"c", "o", "n", "t", "e", "n", "t">>), Opt(NotCls({"\n"})),
              LitI(<<"p", "o", "l", "i", "c", "y">>)>>),
        LitI(<<"s", "a", "f", "e", "t", "y">>),
        LitI(<<"m", "o", "d", "e", "r", "a", "t", "i", "o", "n">>)>>)

\* regex.test(message)
test(re, message) == exec(re, message, 0) # <<>>

\* a value that create() throws: cls is the class it is an instance of,
\* "thrown" for a value that is no Error
Thrown(cls, message) == [cls |-> cls, message |-> message]

MSG_429 == <<"4", "2", "9">>

MSG_RATE_LIMIT == <<"R", "a", "t", "e", " ", "l", "i", "m", "i", "t">>

MSG_QUOTA == <<"q", "u", "o", "t", "a">>

MSG_SAFETY == <<"s", "a", "f", "e", "t", "y">>

MSG_DOWN == <<"d", "o", "w", "n">>

\* the errors the backend call ends with
Errors ==
  {Thrown("RateLimitError", MSG_429),
   Thrown("RateLimitError", MSG_DOWN),
   Thrown("Error", MSG_QUOTA),
   Thrown("Error", MSG_RATE_LIMIT),
   Thrown("Error", MSG_DOWN),
   Thrown("APIConnectionError", MSG_429),
   Thrown("APIConnectionError", MSG_DOWN),
   Thrown("InternalServerError", MSG_DOWN),
   Thrown("AuthenticationError", MSG_DOWN),
   Thrown("PermissionDeniedError", MSG_DOWN),
   Thrown("BadRequestError", MSG_SAFETY),
   Thrown("BadRequestError", MSG_QUOTA),
   Thrown("BadRequestError", MSG_DOWN),
   Thrown("thrown", <<>>)}

\* isRateLimitError
isRateLimitError(error) ==
  \/ error.cls = "RateLimitError"
  \/ /\ error.cls # "thrown"
     /\ includes(error.message, MSG_429) \/ test(RateLimitRe, error.message)

Answer(status, code) == [status |-> status, code |-> code]

\* the catch block of POST
ErrorResponse(error) ==
  CASE error.cls = "RateLimitError" -> Answer(429, "RATE_LIMITED")
    [] error.cls = "AuthenticationError" -> Answer(401, "INVALID_API_KEY")
    [] error.cls = "PermissionDeniedError" -> Answer(403, "FORBIDDEN")
    [] error.cls = "BadRequestError" ->
         IF test(ContentPolicyRe, error.message)
           THEN Answer(400, "CONTENT_FILTERED")
           ELSE Answer(400, "BAD_REQUEST")
    [] error.cls \in {"InternalServerError", "APIConnectionError"} ->
         Answer(503, "SERVICE_UNAVAILABLE")
    [] OTHER -> Answer(500, "SERVER_ERROR")

Pow2(n) == IF n <= 0 THEN 1 ELSE IF n = 1 THEN 2 ELSE IF n = 2 THEN 4 ELSE 8

\* the delay slept before an attempt
Delay(n) == IF n > 0 THEN BASE_DELAY_MS * Pow2(n - 1) ELSE 0

Breaks_AtLimit(error, n) == n = MAX_RETRIES

\* the condition of the break in the catch of the loop
Breaks(error, n) == ~isRateLimitError(error) \/ n = MAX_RETRIES

RouteUnchanged == UNCHANGED <<scanVars, callVars, uiVars>>

\* POST up to the retry loop: the body, the messages and the API key are checked
RoutePost ==
  /\ routePc = "idle"
  /\ \E body \in {"unparsable", "no messages", "messages"}, apiKey \in BOOLEAN :
       IF body = "unparsable" \/ body = "no messages"
         THEN /\ response' = <<Answer(400, "INVALID_REQUEST")>>
              /\ routePc' = "done"
       ELSE IF ~apiKey
         THEN /\ response' = <<Answer(401, "MISSING_API_KEY")>>
              /\ routePc' = "done"
       ELSE /\ response' = <<>>
            /\ routePc' = "attempt"
  /\ attempt' = 0
  /\ lastError' = <<>>
  /\ calls' = <<>>
  /\ RouteUnchanged

\* one pass of the retry loop: the delay, the backend call, and what follows it
RouteAttempt ==
  /\ routePc = "attempt"
  /\ attempt <= MAX_RETRIES
  /\ \/ /\ calls' = Append(calls, [delay |-> Delay(attempt), ok |-> TRUE, error |-> <<>>])
        /\ response' = <<Answer(200, "response")>>
        /\ routePc' = "done"
        /\ UNCHANGED <<attempt, lastError>>
     \/ \E error \in Errors :
          /\ calls' = Append(calls, [delay |-> Delay(attempt), ok |-> FALSE,
                                      error |-> <<error>>])
          /\ lastError' = <<error>>
          /\ IF Breaks(error, attempt)
               THEN /\ response' = <<ErrorResponse(error)>>
                    /\ routePc' = "done"
                    /\ UNCHANGED attempt
               ELSE /\ attempt' = attempt + 1
                    /\ UNCHANGED <<response, routePc>>
  /\ RouteUnchanged

RouteInit == Idle /\ NoCall /\ NoView /\ NoRoute

RouteNext == RoutePost \/ RouteAttempt

RouteSpec == RouteInit /\ [][RouteNext]_vars

(***************************************************************************)
(* Properties of detection, redaction and mapping construction             *)
(***************************************************************************)
Returned == pc \in {"clean", "modal", "confirmed", "raw"}

\* half-open ranges [startIndex, endIndex) that share no offset
Disjoint(a, b) == a.endIndex <= b.startIndex \/ b.endIndex <= a.startIndex

\* the placeholder prefix of the registry for a category
PrefixOfType(type) ==
  DETECTION_PATTERNS[CHOOSE r \in DOMAIN DETECTION_PATTERNS :
                       DETECTION_PATTERNS[r].type = type].prefix

Prefixes == {DETECTION_PATTERNS[r].prefix : r \in DOMAIN DETECTION_PATTERNS}

PrefixOf(item) == PrefixOfType(item.type)

\* the rule that accepted an item of the scan
RuleOf(item) ==
  acceptedBy[CHOOSE k \in DOMAIN usedRanges :
               usedRanges[k] = <<item.startIndex, item.endIndex>>]

\* C1: the items detectSensitiveInfo returns have pairwise non-overlapping
\* half-open ranges and are sorted ascending by startIndex
C1_NonOverlappingSorted ==
  Returned =>
    \A i, j \in DOMAIN result.items :
      i < j => /\ result.items[i].startIndex < result.items[j].startIndex
               /\ Disjoint(result.items[i], result.items[j])

\* a result of two items found by different rules, the later rule's item first
C1_Witness ==
  /\ Returned
  /\ Len(result.items) >= 2
  /\ RuleOf(result.items[1]) > RuleOf(result.items[2])

AllActive(its) == \A i \in DOMAIN its : ~its[i].ignored

NoOriginalIsAPlaceholder(its) ==
  \A i, j \in DOMAIN its : i # j => its[i].original # its[j].replacement

\* C2: after Replace & Send with no item ignored, and no item's original equal
\* to another item's placeholder, restoring the redacted text with the mapping
\* built from the same items gives back the text
C2_RoundTrip ==
  (pc = "confirmed" /\ AllActive(modalItems) /\ NoOriginalIsAPlaceholder(modalItems))
    => restoreOriginals(processed, mapping) = text

Entries(m) == {<<m[i].k, m[i].v>> : i \in DOMAIN m}

ActivePairs(its) ==
  {<<its[i].replacement, its[i].original>> : i \in {j \in DOMAIN its : ~its[j].ignored}}

\* C4: the mapping handed over on Replace & Send maps k to v exactly when some
\* item that is not ignored has placeholder k and original v, each key once, and
\* no ignored item's placeholder is a key
C4_MappingOfActiveItems ==
  pc = "confirmed" =>
    /\ Entries(mapping) = ActivePairs(modalItems)
    /\ \A i, j \in DOMAIN mapping : mapping[i].k = mapping[j].k => i = j
    /\ \A i \in DOMAIN modalItems :
         modalItems[i].ignored => modalItems[i].replacement \notin KeysOf(mapping)

\* a confirmation with one item ignored and another one kept
C4_Witness ==
  /\ pc = "confirmed"
  /\ \E i, j \in DOMAIN modalItems : modalItems[i].ignored /\ ~modalItems[j].ignored
  /\ Len(mapping) >= 1

ItemsOfPrefix(its, prefix) == {i \in DOMAIN its : PrefixOf(its[i]) = prefix}

\* C5: in one result, the placeholders of the N items of a prefix are exactly
\* [PREFIX_1] .. [PREFIX_N], and no two items share a placeholder
C5_PlaceholdersOneToN ==
  Returned =>
    /\ \A prefix \in Prefixes :
         {result.items[i].replacement : i \in ItemsOfPrefix(result.items, prefix)}
           = {Placeholder(prefix, n) :
                n \in 1..Cardinality(ItemsOfPrefix(result.items, prefix))}
    /\ \A i, j \in DOMAIN result.items :
         i # j => result.items[i].replacement # result.items[j].replacement

\* a result with two items of one prefix that different rules accepted
C5_Witness ==
  /\ Returned
  /\ \E i, j \in DOMAIN result.items :
       /\ i # j
       /\ PrefixOf(result.items[i]) = PrefixOf(result.items[j])
       /\ RuleOf(result.items[i]) # RuleOf(result.items[j])

\* the number of items of the same prefix at or before position i of its
RankInPrefix(its, i) ==
  Cardinality({j \in 1..i : PrefixOf(its[j]) = PrefixOf(its[i])})

\* C6 as claimed: in the sorted result the k-th item of a prefix from the left
\* carries the number k
C6_NumberedLeftToRight ==
  Returned =>
    \A i \in DOMAIN result.items :
      result.items[i].replacement
        = Placeholder(PrefixOf(result.items[i]), RankInPrefix(result.items, i))

\* a is accepted before b: by an earlier rule, or by the same rule further left
AcceptedBefore(a, b) ==
  \/ RuleOf(a) < RuleOf(b)
  \/ RuleOf(a) = RuleOf(b) /\ a.startIndex < b.startIndex

NumberOf(item) ==
  {n \in 1..Len(result.items) : item.replacement = Placeholder(PrefixOf(item), n)}

\* C6 amended: among the items of one prefix the placeholder number increases
\* in acceptance order, the registry order of the accepting rule first and the
\* start offset within one rule second
C6_NumberedInAcceptanceOrder ==
  Returned =>
    \A i, j \in DOMAIN result.items :
      (/\ PrefixOf(result.items[i]) = PrefixOf(result.items[j])
       /\ AcceptedBefore(result.items[i], result.items[j]))
        => \E m \in NumberOf(result.items[i]), n \in NumberOf(result.items[j]) : m < n

\* a result whose leftmost item of a prefix was accepted last and carries _2
C6_Witness ==
  /\ Returned
  /\ \E i, j \in DOMAIN result.items :
       /\ i < j
       /\ PrefixOf(result.items[i]) = PrefixOf(result.items[j])
       /\ RuleOf(result.items[i]) > RuleOf(result.items[j])
       /\ result.items[i].replacement = Placeholder(PrefixOf(result.items[i]), 2)
       /\ result.items[j].replacement = Placeholder(PrefixOf(result.items[j]), 1)

(***************************************************************************)
(* Properties of the functions called directly                             *)
(***************************************************************************)
\* sub is a substring of s
IsSubstring(sub, s) ==
  \E i \in 1..(Len(s) + 1) : \E j \in (i - 1)..Len(s) : SubSeq(s, i, j) = sub

\* the permutations of the entries of a sequence
Permutations_(xs) ==
  {[i \in DOMAIN xs |-> xs[f[i]]] :
     f \in {g \in [DOMAIN xs -> DOMAIN xs] : \A i, j \in DOMAIN xs : g[i] = g[j] => i = j}}

\* text read from offset p, with the span of every item that is not ignored
\* replaced by its placeholder and every other character kept
RECURSIVE Redacted(_, _, _)
Redacted(t, its, p) ==
  IF p >= Len(t) THEN <<>>
  ELSE LET here == {i \in DOMAIN its : ~its[i].ignored /\ its[i].startIndex = p}
       IN  IF here = {} THEN <<t[p + 1]>> \o Redacted(t, its, p + 1)
           ELSE LET it == its[CHOOSE i \in here : TRUE]
                IN  it.replacement \o Redacted(t, its, it.endIndex)

\* C3: for pairwise non-overlapping items applyReplacements returns the text
\* with the span of every item that is not ignored replaced by its placeholder
\* and every other character unchanged, whatever the order of the list; with
\* no item or only ignored items the result is the text
C3_SpansReplaced ==
  op = "applyReplacements" =>
    /\ out = Redacted(argText, argItems, 0)
    /\ \A its \in Permutations_(argItems) : applyReplacements(argText, its) = out
    /\ (\A i \in DOMAIN argItems : argItems[i].ignored) => out = argText

\* a call with two active items and an ignored one, the list not in splice order
C3_Witness ==
  /\ op = "applyReplacements"
  /\ Len(argItems) = 3
  /\ ~argItems[1].ignored /\ argItems[2].ignored /\ ~argItems[3].ignored
  /\ argItems[1].startIndex < argItems[2].startIndex
  /\ argItems[2].startIndex < argItems[3].startIndex
  /\ out # argText

\* text read from offset p with every occurrence of k, found left to right,
\* replaced by v character for character
RECURSIVE LiteralReplace(_, _, _, _)
LiteralReplace(t, k, v, p) ==
  IF p >= Len(t) THEN <<>>
  ELSE IF p + Len(k) <= Len(t) /\ SubSeq(t, p + 1, p + Len(k)) = k
    THEN v \o LiteralReplace(t, k, v, p + Len(k))
  ELSE <<t[p + 1]>> \o LiteralReplace(t, k, v, p + 1)

\* C7: restoreOriginals(text, {k: v}) is text with every occurrence of k
\* replaced by v character for character
C7_LiteralReplacement ==
  (op = "restoreOriginals" /\ Len(argMapping) = 1)
    => out = LiteralReplace(argText, argMapping[1].k, argMapping[1].v, 0)

NoValueContainsOtherKey(m) ==
  \A i, j \in DOMAIN m : i # j => ~IsSubstring(m[j].k, m[i].v)

\* C8: when no mapped value contains another key, restoreOriginals gives the
\* same result for every iteration order of the keys
C8_OrderIndependent ==
  (op = "restoreOriginals" /\ NoValueContainsOtherKey(argMapping))
    => \A m \in Permutations_(argMapping) : restoreOriginals(argText, m) = out

\* the number of offsets of s at which sub stands
Occurrences(sub, s) ==
  Cardinality({p \in 0..Len(s) :
                 p + Len(sub) <= Len(s) /\ SubSeq(s, p + 1, p + Len(sub)) = sub})

NoKeyOccurs(m, t) == \A i \in DOMAIN m : ~IsSubstring(m[i].k, t)

Unmapped(m) == {ph \in CallPlaceholders : \A i \in DOMAIN m : m[i].k # ph}

\* C9: restoreOriginals returns the text when the mapping is empty or none of
\* its keys occurs in the text, and placeholders that are not keys stay in place
C9_IdentityWithoutKeys ==
  op = "restoreOriginals" =>
    /\ (Len(argMapping) = 0 \/ NoKeyOccurs(argMapping, argText)) => out = argText
    /\ \A ph \in Unmapped(argMapping) : Occurrences(ph, out) >= Occurrences(ph, argText)

\* a call with keys none of which occurs in a text that holds another placeholder
C9_Witness ==
  /\ op = "restoreOriginals"
  /\ Len(argMapping) >= 1
  /\ NoKeyOccurs(argMapping, argText)
  /\ \E ph \in Unmapped(argMapping) : IsSubstring(ph, argText)
  /\ out = argText

\* C10: hasMappablePlaceholders is true exactly when some key of the mapping
\* occurs in the text
C10_SomeKeyOccurs ==
  op = "hasMappablePlaceholders" =>
    (out <=> \E i \in DOMAIN argMapping : IsSubstring(argMapping[i].k, argText))

\* a call that answers true with one key in the text and another one absent
C10_Witness ==
  /\ op = "hasMappablePlaceholders"
  /\ out = TRUE
  /\ \E i, j \in DOMAIN argMapping :
       IsSubstring(argMapping[i].k, argText) /\ ~IsSubstring(argMapping[j].k, argText)

(***************************************************************************)
(* Properties of the returned GuardrailResult                              *)
(***************************************************************************)
\* C11: hasSensitiveInfo of the result detect returns is true exactly when
\* its item list is non-empty, and when it is false anonymizedText equals the
\* text detect was called with
C11_SensitiveIffItems ==
  Returned =>
    /\ result.hasSensitiveInfo <=> Len(result.items) > 0
    /\ ~result.hasSensitiveInfo => result.anonymizedText = text

\* a scan of a non-empty text that found nothing
C11_Witness ==
  /\ pc = "clean"
  /\ Len(text) > 0
  /\ result.items = <<>>
  /\ result.anonymizedText = text

(***************************************************************************)
(* Properties of successive detectSensitiveInfo calls                      *)
(***************************************************************************)
\* C20: in a sequence of detect calls, every call after the first returns what
\* a single call with the same text returns: its placeholder numbers start at 1
\* and every rule scans from offset 0, whatever the calls before it found
C20_CallsIndependent ==
  (Returned /\ callNo > 1) => result = detectSensitiveInfo(text)

\* a later call of a sequence has returned items
C20_Witness ==
  /\ callNo > 1
  /\ pc = "modal"
  /\ \E i \in DOMAIN result.items :
       result.items[i].replacement = Placeholder(PrefixOf(result.items[i]), 1)

(***************************************************************************)
(* Properties of the exported functions as total functions                 *)
(***************************************************************************)
IsText(s) == s \in Seq(STRING)

IsMapping(m) ==
  /\ DOMAIN m = 1..Len(m)
  /\ \A i \in DOMAIN m : IsText(m[i].k) /\ IsText(m[i].v)
  /\ \A i, j \in DOMAIN m : m[i].k = m[j].k => i = j

\* the number of decimal digits in s
CountDigits(s) == Cardinality({i \in DOMAIN s : s[i] \in Digit})

\* an item whose original would fail the validator of its category
FailsValidator(it) ==
  \/ it.type = "ssn" /\ CountDigits(it.original) # 9
  \/ it.type = "phone" /\ (CountDigits(it.original) < 10 \/ CountDigits(it.original) > 15)
  \/ it.type = "username" /\ toLowerCase(it.original) \in USERNAME_BLOCKLIST

IsGuardrailResult(r) ==
  /\ r.hasSensitiveInfo \in BOOLEAN
  /\ DOMAIN r.items = 1..Len(r.items)
  /\ IsText(r.anonymizedText)
  /\ \A i \in DOMAIN r.items :
       /\ IsText(r.items[i].original)
       /\ IsText(r.items[i].replacement)
       /\ ~FailsValidator(r.items[i])

\* C19: every call of detect, applyReplacements, buildReplacementMapping,
\* restoreOriginals and hasMappablePlaceholders returns a value of its result
\* type, for the empty text, the empty item list and the empty mapping too; the
\* text nothing matches and the text whose candidate fails its validator give
\* a result without items
C19_Total ==
  /\ op = "applyReplacements" => IsText(out)
  /\ op = "restoreOriginals" => IsText(out)
  /\ op = "hasMappablePlaceholders" => out \in BOOLEAN
  /\ op = "buildReplacementMapping" => IsMapping(out)
  /\ op = "detectSensitiveInfo" =>
       /\ IsGuardrailResult(out)
       /\ argText \in {<<>>, <<"x">>} \/ Len(argText) > 16 =>
            out = [hasSensitiveInfo |-> FALSE, items |-> <<>>, anonymizedText |-> argText]

\* detect has returned for the text whose only candidate fails the validator
C19_Witness ==
  /\ op = "detectSensitiveInfo"
  /\ Len(argText) > 16
  /\ out.items = <<>>


(***************************************************************************)
(* Properties of the requests of the views                                 *)
(***************************************************************************)
\* the entries of a chat request that a Replace & Send fixed carry the fixed text
HistoryCarriesRedacted ==
  \A r \in DOMAIN inflight :
    surface = "chat" =>
      \A i \in DOMAIN inflight[r].history :
        inflight[r].history[i].expected # <<>>
          => inflight[r].history[i].content = inflight[r].history[i].expected[1]

\* C12: in every view, once the user confirmed an input with Replace & Send,
\* each request made for that input carries the redacted text
\* applyReplacements(input, confirmed items) and never the raw input; this
\* covers the Regenerate of the summary and the history of the chat.
C12_RequestsCarryRedacted ==
  /\ lastReq.expected # <<>> => lastReq.body = lastReq.expected[1]
  /\ HistoryCarriesRedacted

\* the summary is regenerated after a Replace & Send and the raw text is sent
C12_RegenerateSendsRaw ==
  /\ surface = "summarize"
  /\ event.op = "regenerate"
  /\ lastReq.expected # <<>>
  /\ lastReq.body # lastReq.expected[1]
  /\ lastReq.body = confirmedFor[1].input


(***************************************************************************)
(* Properties of the mapping a session holds                               *)
(***************************************************************************)
\* the key-value pairs of a mapping
Pairs(rm) == {<<rm[i].k, rm[i].v>> : i \in DOMAIN rm}

\* the mapping a session holds: of the view, of the current conversation, or
\* the persisted one
SessionMapping ==
  CASE surface \in Views -> replacementMapping
    [] surface = "chat" -> CurrentMappings
    [] OTHER -> getReplacementMappings

\* C13: after a confirmation with mapping m on a session that held M, the
\* session holds M overridden by m (every key of m with m's value, every other
\* key of M with M's value); for the conversation mapping, the persisted
\* mapping and the mapping of a view.
C13_MappingMerged ==
  event.op \in {"replace", "save"}
    => Pairs(SessionMapping) = Pairs(Spread(event.M, event.m))

\* the three sessions apart
C13_ViewMerged ==
  (surface \in Views /\ event.op = "replace")
    => Pairs(replacementMapping) = Pairs(Spread(event.M, event.m))

C13_ConversationMerged ==
  (surface = "chat" /\ event.op = "replace")
    => Pairs(CurrentMappings) = Pairs(Spread(event.M, event.m))

C13_PersistedMerged ==
  (surface = "storage" /\ event.op = "save")
    => Pairs(getReplacementMappings) = Pairs(Spread(event.M, event.m))

\* a second save overrides one key and keeps another
C13_PersistedWitness ==
  /\ surface = "storage"
  /\ event.op = "save"
  /\ Len(event.M) > 0
  /\ Len(event.m) > 0
  /\ Len(getReplacementMappings) > Len(event.m)


(***************************************************************************)
(* Properties of revealing chat messages                                   *)
(***************************************************************************)
\* the assistant messages of the current conversation that offer the reveal button
Revealable ==
  {i \in DOMAIN CurrentMessages :
     /\ ~CurrentMessages[i].isError
     /\ messageHasMappablePlaceholders(CurrentMessages[i], CurrentMappings)}

\* C14: after any sequence of confirmations in one conversation, revealing an
\* assistant message restores each of its placeholders to the original that the
\* placeholder replaced in the turn that introduced it.
C14_RevealRestoresOwnTurn ==
  surface = "chat" =>
    \A i \in Revealable :
      ChatDisplayContent(CurrentMessages[i], CurrentMappings, {CurrentMessages[i].id})
        = restoreOriginals(CurrentMessages[i].content, CurrentMessages[i].asOf)


(***************************************************************************)
(* Properties of the reveal state and the displayed content                *)
(***************************************************************************)
\* the assistant messages the chat shows through getDisplayContent
Shown == {i \in DOMAIN CurrentMessages :
            CurrentMessages[i].role = "assistant" /\ ~CurrentMessages[i].isError}

\* what the reveal state of a surface requires to be displayed
Required(content, rm, rev) == IF rev THEN restoreOriginals(content, rm) ELSE content

\* C15: every result surface (a view using useReplacementDisplay, each
\* assistant message of the chat) starts HIDDEN, and in every reachable state
\* it displays the stored text when HIDDEN and restoreOriginals(text, session
\* mapping) when REVEALED.
C15_DisplayFollowsRevealState ==
  /\ event.op = "none" => (~revealed /\ revealedMessageIds = {})
  /\ (surface = "chat" /\ event.op = "response") => event.id \notin revealedMessageIds
  /\ surface \in Views =>
       getDisplayContent(output, replacementMapping, revealed)
         = Required(output, replacementMapping, revealed)
  /\ surface = "chat" =>
       \A i \in Shown :
         ChatDisplayContent(CurrentMessages[i], CurrentMappings, revealedMessageIds)
           = Required(CurrentMessages[i].content, CurrentMappings,
                      CurrentMessages[i].id \in revealedMessageIds)

\* a view shows the restored result
C15_Witness ==
  /\ surface \in Views
  /\ revealed
  /\ output # <<>>
  /\ getDisplayContent(output, replacementMapping, revealed) # output

\* the chat shows one assistant message restored and another as stored
C15_ChatWitness ==
  /\ surface = "chat"
  /\ \E i, j \in Shown :
       /\ CurrentMessages[i].id \in revealedMessageIds
       /\ CurrentMessages[j].id \notin revealedMessageIds
       /\ ChatDisplayContent(CurrentMessages[i], CurrentMappings, revealedMessageIds)
            # CurrentMessages[i].content
       /\ hasMappablePlaceholders(CurrentMessages[j].content, CurrentMappings)

\* a view is REVEALED and its result holds no placeholder of the mapping
C15_RevealedPlain ==
  /\ surface \in Views
  /\ revealed
  /\ output # <<>>
  /\ ~hasMappablePlaceholders(output, replacementMapping)


\* C16: after every guardrail confirmation that applies a mapping to a session,
\* every displayed text of the session is HIDDEN: the result of a view, and
\* every message of the conversation that received the mapping, also those the
\* user had revealed before.
C16_ConfirmationHides ==
  (event.op = "replace" /\ Len(event.m) > 0) =>
    /\ surface \in Views => ~revealed
    /\ surface = "chat" =>
         \A i \in DOMAIN CurrentMessages : CurrentMessages[i].id \notin revealedMessageIds

\* the part of it that is about the views
C16_ViewHidden ==
  (surface \in Views /\ event.op = "replace" /\ Len(event.m) > 0) => ~revealed


\* the handlers of a view that clear its output or switch its mode
Clearing == {"setMode", "setInputMethod", "swap", "request", "replace", "raw", "regenerate"}

\* C17: whenever the output of a view is cleared or its mode is switched (the
\* mode toggle of the e-mail view, the input-method toggle of the summary view,
\* the language swap of the translation view, a new request that blanks the
\* previous result), the reveal state of the view is HIDDEN afterwards.
C17_ClearingHides ==
  (surface \in Views /\ event.op \in Clearing) => ~revealed

\* the part of it that is about the two toggles and the confirmations
C17_ToggleHides ==
  (surface \in Views /\ event.op \in {"setMode", "setInputMethod", "replace", "raw"})
    => ~revealed

\* the language swap has moved a revealed translation into the source field
C17_SwapKeepsRevealed ==
  /\ surface = "translation"
  /\ event.op = "swap"
  /\ output = <<>>
  /\ revealed

\* a request without sensitive information has blanked a revealed result
C17_RequestKeepsRevealed ==
  /\ surface \in Views
  /\ event.op \in {"request", "regenerate"}
  /\ output = <<>>
  /\ revealed


\* C18: in the chat, toggling the reveal state of one message flips that
\* message between HIDDEN and REVEALED and leaves the reveal state and the
\* displayed content of every other message unchanged.
C18_ToggleIsLocal ==
  [][event'.op = "toggleReveal" =>
       /\ (event'.id \in revealedMessageIds') = ~(event'.id \in revealedMessageIds)
       /\ CurrentMessages' = CurrentMessages
       /\ \A i \in DOMAIN CurrentMessages :
            CurrentMessages[i].id # event'.id =>
              /\ (CurrentMessages[i].id \in revealedMessageIds')
                   = (CurrentMessages[i].id \in revealedMessageIds)
              /\ ChatDisplayContent(CurrentMessages[i], CurrentMappings', revealedMessageIds')
                   = ChatDisplayContent(CurrentMessages[i], CurrentMappings, revealedMessageIds)
  ]_vars

\* one message was toggled while another one is shown restored
C18_Witness ==
  /\ surface = "chat"
  /\ event.op = "toggleReveal"
  /\ \E i \in Shown :
       /\ CurrentMessages[i].id # event.id
       /\ CurrentMessages[i].id \in revealedMessageIds
       /\ ChatDisplayContent(CurrentMessages[i], CurrentMappings, revealedMessageIds)
            # CurrentMessages[i].content


(***************************************************************************)
(* Properties of the scan: which candidates become items                   *)
(***************************************************************************)
\* two half-open ranges share an offset
Intersects(a, b) == a[1] < b[2] /\ b[1] < a[2]

\* the candidate passes the validator of its rule
Valid(c) ==
  ~FailsValidator([type |-> DETECTION_PATTERNS[c.rule].type,
                   original |-> SubSeq(text, c.range[1] + 1, c.range[2])])

\* the ranges of the candidates before the k-th that became items
AcceptedBefore_(k) == {candidates[j].range : j \in {j \in 1..(k - 1) : candidates[j].emitted}}

\* the scan with the validator applied before the overlap check
RECURSIVE ValidatorFirstFrom(_, _, _, _)
ValidatorFirstFrom(t, i, li, st) ==
  IF i > Len(DETECTION_PATTERNS) THEN st
  ELSE LET pattern == DETECTION_PATTERNS[i]
           match == exec(pattern.pattern, t, li)
       IN  IF match = <<>> THEN ValidatorFirstFrom(t, i + 1, 0, st)
           ELSE LET matched == SubSeq(t, match[1] + 1, match[2])
                IN  IF FailsValidator([type |-> pattern.type, original |-> matched])
                      THEN ValidatorFirstFrom(t, i, match[2], st)
                    ELSE IF \E k \in DOMAIN st.usedRanges : Intersects(match, st.usedRanges[k])
                      THEN ValidatorFirstFrom(t, i, match[2], st)
                    ELSE ValidatorFirstFrom(t, i, match[2],
                           [counters |-> Bump(st.counters, pattern.prefix),
                            items |-> Append(st.items,
                                        NewItem(pattern, match[1], match[2], matched,
                                                getPlaceholder(st.counters, pattern.prefix))),
                            usedRanges |-> Append(st.usedRanges, match)])

\* the first call has returned and the modal, if shown, is untouched
JustReturned == pc \in {"clean", "modal"} /\ callNo = 1 /\ modalItems = result.items

\* C21: scanning in registry order and, within a rule, in text order, a
\* candidate becomes an item if and only if it passes the validator of its rule
\* and its range intersects no range accepted before it; adjacent ranges do not
\* intersect, a rejected candidate claims no range, and the items are the same
\* when the validator is applied before the overlap check.
C21_AcceptedIffValidAndFree ==
  /\ \A k \in DOMAIN candidates :
       candidates[k].emitted <=>
         /\ Valid(candidates[k])
         /\ \A r \in AcceptedBefore_(k) : ~Intersects(candidates[k].range, r)
  /\ \A j, k \in DOMAIN candidates :
       j < k =>
         /\ candidates[j].rule <= candidates[k].rule
         /\ candidates[j].rule = candidates[k].rule
              => candidates[j].range[2] <= candidates[k].range[1]
  /\ {usedRanges[i] : i \in DOMAIN usedRanges}
       = {candidates[k].range : k \in {k \in DOMAIN candidates : candidates[k].emitted}}
  /\ Len(usedRanges) = Len(items)
  /\ {<<items[i].startIndex, items[i].endIndex>> : i \in DOMAIN items}
       = {usedRanges[i] : i \in DOMAIN usedRanges}
  /\ JustReturned =>
       result.items = sortAscending(
         ValidatorFirstFrom(text, 1, 0,
           [counters |-> <<>>, items |-> <<>>, usedRanges |-> <<>>]).items)

\* the call returned after it dropped one candidate for its validator and
\* another for its overlap, and kept a third
C21_Witness ==
  /\ pc \in {"clean", "modal"}
  /\ \E k \in DOMAIN candidates : ~candidates[k].emitted /\ ~Valid(candidates[k])
  /\ \E k \in DOMAIN candidates :
       /\ ~candidates[k].emitted
       /\ Valid(candidates[k])
       /\ \E r \in AcceptedBefore_(k) : Intersects(candidates[k].range, r)
  /\ \E k \in DOMAIN candidates : candidates[k].emitted

\* two items whose ranges are adjacent
C21_AdjacentKept ==
  /\ pc \in {"clean", "modal"}
  /\ \E i, j \in DOMAIN result.items : result.items[i].endIndex = result.items[j].startIndex
  /\ \E k \in DOMAIN candidates :
       /\ candidates[k].emitted
       /\ \E r \in AcceptedBefore_(k) : r[2] = candidates[k].range[1]


\* two candidates of different rules, the first of the earlier rule, that both
\* pass their validators and whose ranges intersect
Rivals(j, k) ==
  /\ candidates[j].rule < candidates[k].rule
  /\ Valid(candidates[j])
  /\ Valid(candidates[k])
  /\ Intersects(candidates[j].range, candidates[k].range)

\* C22 as stated: when two candidates of different rules both pass their
\* validators and their ranges intersect, the candidate of the later rule is
\* never emitted as an item.
C22_LaterNeverEmitted ==
  \A j, k \in DOMAIN candidates : Rivals(j, k) => ~candidates[k].emitted

\* C22: when two candidates of different rules both pass their validators and
\* their ranges intersect, and the candidate of the earlier rule was itself
\* accepted, the candidate of the later rule is never emitted as an item.
C22_AcceptedEarlierWins ==
  \A j, k \in DOMAIN candidates :
    (Rivals(j, k) /\ candidates[j].emitted) => ~candidates[k].emitted

\* the call returned with an accepted candidate and a rival of a later rule
C22_Witness ==
  /\ pc \in {"clean", "modal"}
  /\ \E j, k \in DOMAIN candidates : Rivals(j, k) /\ candidates[j].emitted

\* the later rule's candidate is an item although a rival of an earlier rule,
\* itself dropped for an overlap, intersects it
C22_LaterEmitted ==
  /\ pc \in {"clean", "modal"}
  /\ \E j, k \in DOMAIN candidates :
       Rivals(j, k) /\ ~candidates[j].emitted /\ candidates[k].emitted


(***************************************************************************)
(* Properties of the items of a scan                                       *)
(***************************************************************************)
\* C23: every item detect emits satisfies the validator of its category: the
\* original of an ssn item has exactly 9 digits, the original of a phone item
\* has between 10 and 15 digits (a sequence of 16 digits or more is never a
\* phone item), and the original of a username item, lowercased, is not in the
\* exclusion list.
C23_ItemsPassValidators ==
  \A i \in DOMAIN items :
    /\ items[i].type = "ssn" => CountDigits(items[i].original) = 9
    /\ items[i].type = "phone" =>
         /\ CountDigits(items[i].original) >= 10
         /\ CountDigits(items[i].original) <= 15
    /\ items[i].type = "username" =>
         toLowerCase(items[i].original) \notin USERNAME_BLOCKLIST

\* the call returned a phone item
C23_Witness ==
  /\ pc \in {"clean", "modal"}
  /\ \E i \in DOMAIN result.items : result.items[i].type = "phone"

\* the call returned an ssn item, or a username item
C23_SsnWitness ==
  /\ pc \in {"clean", "modal"}
  /\ \E i \in DOMAIN result.items : result.items[i].type = "ssn"

C23_UsernameWitness ==
  /\ pc \in {"clean", "modal"}
  /\ \E i \in DOMAIN result.items : result.items[i].type = "username"

\* the call returned without a phone item for a phone candidate of 17 digits
C23_PhoneDropped ==
  /\ pc \in {"clean", "modal"}
  /\ \E k \in DOMAIN candidates :
       /\ DETECTION_PATTERNS[candidates[k].rule].type = "phone"
       /\ CountDigits(SubSeq(text, candidates[k].range[1] + 1, candidates[k].range[2])) > 15
       /\ ~candidates[k].emitted


(***************************************************************************)
(* Termination of the scan                                                 *)
(***************************************************************************)
\* a step of the call: of its loops, or the sort and the return
ScanStep == ScanMatch \/ ScanNextRule \/ DetectReturn

\* detectSensitiveInfo is synchronous code: a step of the call that can be
\* taken is taken.  In every state with pc = "scan" one of the three steps can
\* be taken (exec returns a match or null, or the rules are used up), so this
\* is WF_vars(ScanStep) with ENABLED <<ScanStep>>_vars written as pc = "scan"
LiveSpec ==
  /\ Init
  /\ [][Next]_vars
  /\ ([]<>(pc # "scan") \/ []<><<ScanStep>>_vars)

\* the number of matches the loop of rule r has seen
MatchesOf(r) == Cardinality({k \in DOMAIN candidates : candidates[k].rule = r})

\* C24: detect terminates for every text: in the match loop of each rule every
\* match is non-empty and the scan position strictly advances, so the loop of a
\* rule ends after at most length(text) matches, and the call returns.
C24_Terminates ==
  /\ [](\A k \in DOMAIN candidates : candidates[k].range[1] < candidates[k].range[2])
  /\ [](\A r \in DOMAIN DETECTION_PATTERNS : MatchesOf(r) <= Len(text))
  /\ [][(pc = "scan" /\ pc' = "scan" /\ ruleIdx' = ruleIdx /\ callNo' = callNo)
          => lastIndex' > lastIndex]_vars
  /\ (pc = "scan") ~> (pc # "scan")

\* the call returned after the loop of one rule saw two matches
C24_Witness ==
  /\ pc \in {"clean", "modal"}
  /\ \E r \in DOMAIN DETECTION_PATTERNS : MatchesOf(r) >= 2


\* the decimal digits of a natural number
RECURSIVE Decimal(_)
Decimal(n) ==
  LET last == <<CHOOSE d \in Digit : d = ToString(n % 10)>>
  IN  IF n < 10 THEN last ELSE Decimal(n \div 10) \o last

\* C25: every item detect(text) returns is well formed:
\* 0 <= startIndex < endIndex <= length(text), original is the substring of the
\* text at [startIndex, endIndex), ignored is false, id is
\* type-startIndex-endIndex, and the ids of one result are pairwise distinct.
C25_ItemsWellFormed ==
  Returned =>
    /\ \A i \in DOMAIN result.items :
         LET it == result.items[i]
         IN  /\ 0 <= it.startIndex
             /\ it.startIndex < it.endIndex
             /\ it.endIndex <= Len(text)
             /\ it.original = SubSeq(text, it.startIndex + 1, it.endIndex)
             /\ it.ignored = FALSE
             /\ it.id = <<it.type, "-">> \o Decimal(it.startIndex) \o <<"-">>
                          \o Decimal(it.endIndex)
    /\ \A i, j \in DOMAIN result.items :
         result.items[i].id = result.items[j].id => i = j

\* the call returned two items of one type, one of them ending past offset 9
C25_Witness ==
  /\ Returned
  /\ \E i, j \in DOMAIN result.items :
       /\ i # j
       /\ result.items[i].type = result.items[j].type
       /\ result.items[j].endIndex > 9


(***************************************************************************)
(* Properties of cancelling the GuardrailModal                             *)
(***************************************************************************)
\* what the view displays: its result, or the assistant messages of the chat
DisplayedOf(content, rm, rev, msgs, crm, ids) ==
  IF surface = "chat"
    THEN [i \in DOMAIN msgs |-> ChatDisplayContent(msgs[i], crm, ids)]
    ELSE <<getDisplayContent(content, rm, rev)>>

\* C26: cancelling the guardrail modal discards the pending items, sends no
\* request to the backend, and leaves the session mapping, every reveal state
\* and the displayed output unchanged.
C26_CancelChangesNothing ==
  [][event'.op = "cancel" =>
       /\ guardrailData' = <<>>
       /\ inflight' = inflight
       /\ lastReq' = lastReq
       /\ isLoading' = isLoading
       /\ replacementMapping' = replacementMapping
       /\ CurrentMappings' = CurrentMappings
       /\ conversations' = conversations
       /\ stored' = stored
       /\ revealed' = revealed
       /\ revealedMessageIds' = revealedMessageIds
       /\ output' = output
       /\ DisplayedOf(output', replacementMapping', revealed', CurrentMessages',
                       CurrentMappings', revealedMessageIds')
            = DisplayedOf(output, replacementMapping, revealed, CurrentMessages,
                          CurrentMappings, revealedMessageIds)
  ]_vars

\* the modal was cancelled over a result that is shown restored
C26_Witness ==
  /\ event.op = "cancel"
  /\ guardrailData = <<>>
  /\ surface \in Views
  /\ revealed
  /\ getDisplayContent(output, replacementMapping, revealed) # output

\* the modal was cancelled in the chat while a message is shown restored
C26_ChatWitness ==
  /\ event.op = "cancel"
  /\ surface = "chat"
  /\ \E i \in Shown : CurrentMessages[i].id \in revealedMessageIds


(***************************************************************************)
(* Properties of the first message of a new conversation                   *)
(***************************************************************************)
\* a Replace & Send with a mapping was the first message of a conversation
\* that addMessage created for it
FirstMessageConfirmed ==
  /\ surface = "chat"
  /\ event.op = "replace"
  /\ Len(event.m) > 0
  /\ Len(CurrentMessages) = 1

\* C27: when a guardrail confirmation with a non-empty mapping is sent as the
\* first message of a new chat session (no current conversation id), the
\* mapping is merged into the conversation that addMessage creates, whether the
\* updater that addMessage queued has run when updateReplacementMapping is
\* called or runs later.
C27_FirstMappingMerged ==
  FirstMessageConfirmed => Pairs(CurrentMappings) = Pairs(event.m)

\* the new conversation holds the mapping of its first message
C27_MergedWhenEager ==
  /\ FirstMessageConfirmed
  /\ Pairs(CurrentMappings) = Pairs(event.m)

\* the new conversation holds no mapping after its first message
C27_LostWhenDeferred ==
  /\ FirstMessageConfirmed
  /\ CurrentMappings = <<>>


(***************************************************************************)
(* Properties of the conversation list and of what is saved                *)
(***************************************************************************)
NoneEmpty(convs) == \A i \in DOMAIN convs : Len(convs[i].messages) >= 1

\* C28: after any sequence of createNewConversation, addMessage,
\* selectConversation, deleteConversation and updateReplacementMapping, every
\* conversation in the list and every saved conversation has at least one
\* message, and the saved current conversation id is null or the id of a saved
\* conversation.
C28_ListAndSavedValid ==
  surface \in {"provider", "chat"} =>
    /\ NoneEmpty(conversations)
    /\ NoneEmpty(saved.conversations)
    /\ saved.currentId = 0 \/ HasConversation(saved.conversations, saved.currentId)

\* the current conversation was deleted while another one remained, and the
\* saved current id moved to it
C28_Witness ==
  /\ surface = "provider"
  /\ event.op = "deleteConversation"
  /\ pending = <<>>
  /\ ~HasConversation(conversations, event.id)
  /\ saved.conversations # <<>>
  /\ saved.currentId = saved.conversations[1].id

\* updateReplacementMapping saved the list after a new conversation was begun
C28_MappingSavedWitness ==
  /\ surface = "provider"
  /\ event.op = "render"
  /\ currentId = 0
  /\ \E i \in DOMAIN saved.conversations :
       saved.conversations[i].replacementMappings # <<>>


(***************************************************************************)
(* Properties of the chat API route                                        *)
(***************************************************************************)
RateLimited(call) == ~call.ok /\ isRateLimitError(call.error[1])

\* C29: for one request the backend is called at most MAX_RETRIES + 1 times;
\* a call is made only when every call before it failed with a rate-limit
\* error; a call that succeeds is the last one and its response is returned;
\* a call that fails with another error is the last one.
C29_RetriesOnlyRateLimits ==
  /\ Len(calls) <= MAX_RETRIES + 1
  /\ \A k \in DOMAIN calls :
       /\ k > 1 => RateLimited(calls[k - 1])
       /\ calls[k].ok =>
            /\ k = Len(calls)
            /\ routePc = "done"
            /\ response = <<Answer(200, "response")>>
       /\ (~calls[k].ok /\ ~isRateLimitError(calls[k].error[1])) =>
            /\ k = Len(calls)
            /\ routePc = "done"

\* the call succeeded after three rate-limited ones
C29_Witness ==
  /\ routePc = "done"
  /\ Len(calls) = MAX_RETRIES + 1
  /\ calls[Len(calls)].ok
  /\ \A k \in 1..MAX_RETRIES : RateLimited(calls[k])

\* another error ended the loop after one retry
C29_OtherErrorWitness ==
  /\ routePc = "done"
  /\ Len(calls) = 2
  /\ ~calls[2].ok
  /\ ~isRateLimitError(calls[2].error[1])

\* every attempt was made and every one failed with a rate-limit error
RetriesUsedUp ==
  /\ routePc = "done"
  /\ Len(calls) = MAX_RETRIES + 1
  /\ \A k \in DOMAIN calls : RateLimited(calls[k])

\* C30: a request whose attempts all fail with errors that isRateLimitError
\* classifies as rate limiting is answered with status 429 and code
\* RATE_LIMITED.
C30_UsedUpAnswers429 ==
  RetriesUsedUp => response = <<Answer(429, "RATE_LIMITED")>>

\* the retries were used up and the answer is 429
C30_Answered429 ==
  /\ RetriesUsedUp
  /\ response = <<Answer(429, "RATE_LIMITED")>>

\* the retries were used up by rate-limit errors and the answer is another one
C30_AnsweredOtherwise ==
  /\ RetriesUsedUp
  /\ response[1].status # 429

====
